---- MODULE Spec2Model ----
(***************************************************************************)
(* GymApp: the active-workout session.                                     *)
(*                                                                         *)
(* Server side: the edge function's handlers for POST /start-workout,      *)
(* POST /log-exercise, POST /complete-workout and GET /streak over the     *)
(* key-value store.  Every `await kv.*` is a point where another request   *)
(* may run, so each handler is a sequence of steps, one per store          *)
(* operation, with the handler's locals kept in its request record.        *)
(*                                                                         *)
(* Client side: the ActiveWorkout component (its state as rendered last,   *)
(* the handlers of its buttons, its effects, timer and api calls), the     *)
(* screen the App shows, and the workout plan as the WorkoutPlanSetup form *)
(* and the per-day editor of WorkoutPreview save it.                       *)
(***************************************************************************)
EXTENDS Integers, Sequences, FiniteSets, TLC

\* ------------------------------------------------------------------ bounds
MaxRequests == 4
MaxServerClockSteps == 2
MaxClientClockSteps == 3
MaxRests == 1
MaxLogs == 2
MaxEdits == 1
MaxPlanExercises == 2
MaxInfoRequests == 2
MaxInfoClockSteps == 1
MaxStreakHalfDays == 7

\* --------------------------------------------------------------- constants
MsPerSecond == 1000
HalfSecond == MsPerSecond \div 2
DayMs == 24 * 60 * 60 * MsPerSecond

\* What the server's Date.now() may return, in ms.  The wall clock is not
\* monotonic (it can be set back between two reads), so every read may return
\* any of these instants.
ServerInstants == {k * HalfSecond : k \in 0..MaxServerClockSteps}

\* A value that may be null: <<>> is null, <<v>> is v.
None == <<>>
Some(v) == <<v>>
IsSome(o) == o # <<>>
Get(o) == o[1]

\* JSON scalars of a request body: a number or a string.
Num(n) == <<"num", n>>
Str(s) == <<"str", s>>

\* The workout of the day the client sends with start-workout.
ExA == [name |-> "squat", sets |-> 1, minReps |-> 8, maxReps |-> 11, restTime |-> 1]
ExB == [name |-> "press", sets |-> 2, minReps |-> 8, maxReps |-> 12, restTime |-> 2]
Workout == [day |-> <<"M", "o", "n">>, exercises |-> <<ExA, ExB>>]

\* A workout day saved by the plan setup with -1 typed into a sets field and
\* into a rest-time field: the setup stores parseInt of the field as it is.
ExNeg == [name |-> "curl", sets |-> 0 - 1, minReps |-> 8, maxReps |-> 12,
          restTime |-> 0 - 1]
WorkoutUnchecked == [day |-> <<"T", "u", "e">>, exercises |-> <<ExA, ExNeg>>]

\* The workouts ActiveWorkout is opened with.
Workouts == {Workout, WorkoutUnchecked}

Users == {"u1"}

\* Another signed-up user, and all those getAuthenticatedUser finds.
Others == {"u2"}
Accounts == Users \cup Others

\* The browser tabs the user has open; each has one request outstanding at most.
Tabs == {"tab1", "tab2"}

VARIABLES
    \* the key-value store
    sessions,       \* workout_session:<sessionId>  -> session record
    history,        \* workout_history:<user>:<day>:<date>:<completedAt> -> record
    weights,        \* exercise_weights:<user>:<exerciseName> -> history list
    \* the requests being handled: position in the handler and its locals
    reqs,
    sent,           \* how many requests have been sent
    lastReply,      \* the response sent last
    \* history of the run, for the properties
    logged,         \* session id -> the log-exercise bodies answered 200, in order
    disturbed,      \* session ids on which two requests were in flight together
    failed,         \* session ids a request on which was answered with an error
    completedIds    \* session ids completed and not started again

serverVars == <<sessions, history, weights, reqs, sent, lastReply,
                logged, disturbed, failed, completedIds>>

VARIABLES
    \* the key-value store: the body metrics of one user
    userInfoLatest,   \* user_info_<user>: the cached latest profile, if any
    userInfoHistory,  \* user_info_history:<user>:<entryId> -> history entry
    \* the body-metrics requests being handled, one to a tab
    infoReqs,         \* tab -> the request, its position in the handler, its locals
    infoSent,         \* how many of them have been sent
    infoReply,        \* the response sent last
    infoClock,        \* the server's Date.now(), in ms
    idsIssued         \* how many crypto.randomUUID() values were drawn

profileVars == <<userInfoLatest, userInfoHistory, infoReqs, infoSent, infoReply,
                 infoClock, idsIssued>>

VARIABLES
    \* the App
    screen,         \* which screen the App shows
    \* the workout plan
    setup,          \* the WorkoutPlanSetup component's state
    preview,        \* the WorkoutPreview component's state (the per-day editor)
    savedPlan,      \* workout_plan:<user>, the plan saved last
    \* the ActiveWorkout component
    workout,        \* the `workout` prop
    permission,     \* the browser's Notification.permission
    ui,             \* the component's state (its useState cells), as rendered last
    effectPending,  \* the auto-finalize effect of that render has yet to run
    calls,          \* api calls awaiting their response, with what they captured
    summary,        \* what onComplete was given; the component is gone after it
    clientNow,      \* the browser's Date.now(), in ms
    tickBase,       \* when the countdown's interval was started or fired last
    \* history of the run, for the properties
    rests,          \* the rest periods started, in order, and what they accrued
    notified,       \* how often the 'Rest complete!' notification was sent
    edits           \* how many values were typed into number fields

planVars == <<setup, preview, savedPlan>>

clientVars == <<planVars, screen, workout, permission, ui, effectPending, calls, summary, clientNow,
                tickBase, rests, notified, edits>>

vars == <<serverVars, profileVars, clientVars>>

\* ------------------------------------------------------------ pure helpers

\* Math.round of n/d for d > 0: the nearest integer, a half rounded up.
RoundDiv(n, d) == (2 * n + d) \div (2 * d)

Max(a, b) == IF a >= b THEN a ELSE b

\* `Number(x) || 0`: a number stays, anything unparsable (NaN) and 0 give 0.
NumberOr0(j) == IF j[1] = "num" THEN j[2] ELSE 0

\* new Date().toISOString().split("T")[0]: the UTC calendar day of an instant.
IsoDate(ms) == ms \div DayMs

\* str.replaceAll(":", "_") on a string given as its characters.
ReplaceColons(s) == [i \in DOMAIN s |-> IF s[i] = ":" THEN "_" ELSE s[i]]

\* String(session.workoutDay || "unknown").replaceAll(":", "_")
WorkoutDayKey(day) ==
    ReplaceColons(IF day = <<>> THEN <<"u", "n", "k", "n", "o", "w", "n">> ELSE day)

\* `${auth.user.id}_${Date.now()}`
SessionIdOf(user, ms) == <<user, ms>>

\* The key complete-workout writes its record under.  The ISO string of an
\* instant is one-to-one with its milliseconds, and so is that string with its
\* colons replaced: the instant stands for completedAtKey.
HistoryKey(user, day, completedAt) ==
    <<user, WorkoutDayKey(day), IsoDate(completedAt), completedAt>>

WeightsKey(user, exerciseName) == <<user, exerciseName>>

\* A reduce that starts from the first entry instead of from 0 and so leaves
\* that entry's rest out.
RECURSIVE SumRestWithoutFirst(_)
SumRestWithoutFirst(logs) ==
    IF Len(logs) <= 1 THEN 0
    ELSE SumRestWithoutFirst(SubSeq(logs, 1, Len(logs) - 1))
             + logs[Len(logs)].restTakenSeconds

\* completedExercises.reduce((sum, e) => sum + (Number(e.restTakenSeconds) || 0), 0)
RECURSIVE SumRest(_)
SumRest(logs) ==
    IF logs = <<>> THEN 0
    ELSE SumRest(SubSeq(logs, 1, Len(logs) - 1))
             + NumberOr0(Num(logs[Len(logs)].restTakenSeconds))

\* The duration truncated (Math.floor) instead of rounded.
TotalWorkoutSecondsFloored(startedAt, completedAt) ==
    Max(0, (completedAt - startedAt) \div MsPerSecond)

\* Math.max(0, Math.round((completedAt - startedAt) / 1000))
TotalWorkoutSeconds(startedAt, completedAt) ==
    Max(0, RoundDiv(completedAt - startedAt, MsPerSecond))

\* kv.set / kv.del on a map of the store
KvSet(store, key, value) == (key :> value) @@ store
KvDel(store, key) == [k \in DOMAIN store \ {key} |-> store[k]]

\* ----------------------------------------------------- requests (api client)

\* `seen` is no part of the request: it records, for the properties, what had
\* been logged on the session and whether no other request on it was in flight
\* when a complete-workout was sent.
NewRequest(kind, user, body, seen) ==
    [kind |-> kind, user |-> user, body |-> body, pc |-> "recv", local |-> None,
     seen |-> seen]

\* Session ids a client holds: those a start-workout response returned.
KnownSessionIds == DOMAIN logged

OnSession(r, sid) == r.kind # "start" /\ r.body.sessionId = sid

\* authorizedFetch: one request is sent; nothing is retried.
Send(kind, user, body) ==
    /\ sent < MaxRequests
    /\ Len(reqs) < Cardinality(Tabs)
    /\ sent' = sent + 1
    /\ LET busy == kind # "start"
                    /\ \E i \in DOMAIN reqs : OnSession(reqs[i], body.sessionId)
           seen == IF kind = "complete"
                   THEN [logged |-> logged[body.sessionId], idle |-> ~busy]
                   ELSE None
       IN /\ reqs' = Append(reqs, NewRequest(kind, user, body, seen))
          /\ disturbed' = IF busy THEN disturbed \cup {body.sessionId} ELSE disturbed
    /\ UNCHANGED <<sessions, history, weights, lastReply, logged, failed,
                   completedIds>>
    /\ UNCHANGED <<profileVars, clientVars>>

\* Math.round((exercise.minReps + exercise.maxReps) / 2)
DefaultReps(ex) == RoundDiv(ex.minReps + ex.maxReps, 2)

\* new Array(exercise.sets).fill(defaultReps)
DefaultSetsData(ex) == [k \in 1..ex.sets |-> DefaultReps(ex)]

\* restTakenSeconds of the request: exerciseRestSeconds[currentExerciseIndex] ?? 0.
\* In these runs the client has rested the configured time before each log.
RestSubmitted(ex) == Num(ex.restTime)

ApiStartWorkout(user) ==
    Send("start", user, [workoutDay |-> Workout.day, exercises |-> Workout.exercises])

ApiLogExercise(user, sid, ex) ==
    Send("log", user,
         [sessionId |-> sid, exerciseName |-> ex.name, setsData |-> DefaultSetsData(ex),
          weight |-> Num(50), restTakenSeconds |-> RestSubmitted(ex)])

ApiCompleteWorkout(user, sid) ==
    Send("complete", user, [sessionId |-> sid])

\* What a log-exercise body may carry as weight and as restTakenSeconds: the
\* handler takes both from req.json() as they come.  The component sends
\* parseFloat(weight) || 0, which is negative for a negative text.
ValuesSent == {[weight |-> Num(50), restTakenSeconds |-> Num(1)],
               [weight |-> Num(0 - 5), restTakenSeconds |-> Num(0 - 5)],
               [weight |-> Str("abc"), restTakenSeconds |-> Str("abc")]}

\* A log-exercise request of any client.
PostLogExercise(user, sid, ex, weight, restTakenSeconds) ==
    Send("log", user,
         [sessionId |-> sid, exerciseName |-> ex.name, setsData |-> DefaultSetsData(ex),
          weight |-> weight, restTakenSeconds |-> restTakenSeconds])

\* ------------------------------------------------------------- the handlers

Remove(seq, i) == [k \in 1..(Len(seq) - 1) |-> IF k < i THEN seq[k] ELSE seq[k + 1]]

\* jsonResponse(data, status): the handler returns.
Answer(i, status, reply) ==
    /\ reqs' = Remove(reqs, i)
    /\ lastReply' = Some([kind |-> reqs[i].kind, status |-> status, reply |-> reply])
    /\ failed' =
         IF status # 200 /\ reqs[i].kind # "start"
         THEN failed \cup {reqs[i].body.sessionId}
         ELSE failed

Step(i, pc, local) ==
    /\ reqs' = [reqs EXCEPT ![i].pc = pc, ![i].local = local]
    /\ UNCHANGED <<lastReply, failed>>

At(i, kind, pc) ==
    /\ i \in DOMAIN reqs
    /\ reqs[i].kind = kind
    /\ reqs[i].pc = pc

\* POST /start-workout.  The handler reads the clock for the id and again, in
\* the next statement, for startedAt: the two reads are taken as one.
StartWorkout(i, now) ==
    /\ At(i, "start", "recv")
    /\ reqs[i].user \in Accounts
    /\ LET sessionId == SessionIdOf(reqs[i].user, now)
           session == [userId |-> reqs[i].user,
                       workoutDay |-> reqs[i].body.workoutDay,
                       exercises |-> reqs[i].body.exercises,
                       startedAt |-> now,
                       completedExercises |-> <<>>]
       IN /\ sessions' = KvSet(sessions, sessionId, session)
          /\ completedIds' = completedIds \ {sessionId}
          /\ logged' = KvSet(logged, sessionId, <<>>)
          /\ reqs' = Remove(reqs, i)
          /\ lastReply' = Some([kind |-> "start", status |-> 200,
                                reply |-> [sessionId |-> sessionId]])
          /\ disturbed' = IF \E j \in DOMAIN reqs : OnSession(reqs[j], sessionId)
                          THEN disturbed \cup {sessionId}
                          ELSE disturbed
          /\ UNCHANGED failed
    /\ UNCHANGED <<history, weights, sent>>
    /\ UNCHANGED <<profileVars, clientVars>>

\* POST /log-exercise: kv.get of the session, then the push on the copy read.
LogGetSession(i) ==
    /\ At(i, "log", "recv")
    /\ reqs[i].user \in Accounts
    /\ LET b == reqs[i].body
           entry == [exerciseName |-> b.exerciseName,
                     setsData |-> b.setsData,
                     weight |-> b.weight,
                     restTakenSeconds |-> NumberOr0(b.restTakenSeconds)]
       IN IF b.sessionId \notin DOMAIN sessions
          THEN Answer(i, 404, [error |-> "Session not found"])
          ELSE LET session == sessions[b.sessionId]
               IN Step(i, "setSession",
                       [session EXCEPT !.completedExercises = Append(@, entry)])
    /\ UNCHANGED <<sessions, history, weights, sent, disturbed, logged, completedIds>>
    /\ UNCHANGED <<profileVars, clientVars>>

\* A write that merges: the entry is appended to the list the store holds at the
\* time of the write, instead of the list read being written back.
LogSetSessionMerging(i) ==
    /\ At(i, "log", "setSession")
    /\ LET sid == reqs[i].body.sessionId
           entry == reqs[i].local.completedExercises[Len(reqs[i].local.completedExercises)]
       IN sessions' = IF sid \in DOMAIN sessions
                      THEN [sessions EXCEPT ![sid].completedExercises = Append(@, entry)]
                      ELSE KvSet(sessions, sid, reqs[i].local)
    /\ Step(i, "getWeights", None)
    /\ UNCHANGED <<history, weights, sent, disturbed, logged, completedIds>>
    /\ UNCHANGED <<profileVars, clientVars>>

\* POST /log-exercise: kv.set of the whole session.
LogSetSession(i) ==
    /\ At(i, "log", "setSession")
    /\ sessions' = KvSet(sessions, reqs[i].body.sessionId, reqs[i].local)
    /\ Step(i, "getWeights", None)
    /\ UNCHANGED <<history, weights, sent, disturbed, logged, completedIds>>
    /\ UNCHANGED <<profileVars, clientVars>>

\* POST /log-exercise: kv.get of the weight series, then the push.
LogGetWeights(i) ==
    /\ At(i, "log", "getWeights")
    /\ LET key == WeightsKey(reqs[i].user, reqs[i].body.exerciseName)
           series == IF key \in DOMAIN weights THEN weights[key] ELSE <<>>
       IN Step(i, "setWeights",
               Append(series, [weight |-> reqs[i].body.weight]))
    /\ UNCHANGED <<sessions, history, weights, sent, disturbed, logged, completedIds>>
    /\ UNCHANGED <<profileVars, clientVars>>

\* POST /log-exercise: kv.set of the weight series, then { success: true }.
LogSetWeights(i) ==
    /\ At(i, "log", "setWeights")
    /\ weights' = KvSet(weights,
                        WeightsKey(reqs[i].user, reqs[i].body.exerciseName),
                        reqs[i].local)
    /\ logged' = [logged EXCEPT ![reqs[i].body.sessionId] = Append(@, reqs[i].body)]
    /\ Answer(i, 200, [success |-> TRUE])
    /\ UNCHANGED <<sessions, history, sent, disturbed, completedIds>>
    /\ UNCHANGED <<profileVars, clientVars>>

\* The store operation a handler is waiting for throws and has no effect: the
\* handler's catch answers 500.
StoreFails(i) ==
    /\ i \in DOMAIN reqs
    /\ reqs[i].user \in Accounts
    /\ Answer(i, 500,
              [error |-> CASE reqs[i].kind = "start" -> "Failed to start workout"
                           [] reqs[i].kind = "log" -> "Failed to log exercise"
                           [] OTHER -> "Failed to complete workout"])
    /\ UNCHANGED <<sessions, history, weights, sent, disturbed, logged, completedIds>>
    /\ UNCHANGED <<profileVars, clientVars>>

\* POST /complete-workout: kv.get of the session, then the totals.
CompleteGetSession(i, now) ==
    /\ At(i, "complete", "recv")
    /\ reqs[i].user \in Accounts
    /\ LET sid == reqs[i].body.sessionId
       IN IF sid \notin DOMAIN sessions
          THEN Answer(i, 404, [error |-> "Session not found"])
          ELSE LET session == sessions[sid]
                   completedAt == now
                   record == [userId |-> session.userId,
                              workoutDay |-> session.workoutDay,
                              exercises |-> session.exercises,
                              startedAt |-> session.startedAt,
                              completedExercises |-> session.completedExercises,
                              completedAt |-> completedAt,
                              totalRestSeconds |-> SumRest(session.completedExercises),
                              totalWorkoutSeconds |->
                                  TotalWorkoutSeconds(session.startedAt, completedAt)]
               IN Step(i, "setHistory",
                       [key |-> HistoryKey(reqs[i].user, session.workoutDay, completedAt),
                        record |-> record])
    /\ UNCHANGED <<sessions, history, weights, sent, disturbed, logged, completedIds>>
    /\ UNCHANGED <<profileVars, clientVars>>

\* POST /complete-workout: kv.set of the history record.
CompleteSetHistory(i) ==
    /\ At(i, "complete", "setHistory")
    /\ history' = KvSet(history, reqs[i].local.key, reqs[i].local.record)
    /\ Step(i, "delSession", reqs[i].local)
    /\ UNCHANGED <<sessions, weights, sent, disturbed, logged, completedIds>>
    /\ UNCHANGED <<profileVars, clientVars>>

\* POST /complete-workout: kv.del of the session, then the totals are returned.
CompleteDelSession(i) ==
    /\ At(i, "complete", "delSession")
    /\ sessions' = KvDel(sessions, reqs[i].body.sessionId)
    /\ completedIds' = completedIds \cup {reqs[i].body.sessionId}
    /\ LET r == reqs[i].local.record
       IN Answer(i, 200,
                 [success |-> TRUE, completedAt |-> r.completedAt,
                  totalRestSeconds |-> r.totalRestSeconds,
                  totalWorkoutSeconds |-> r.totalWorkoutSeconds])
    /\ UNCHANGED <<history, weights, sent, disturbed, logged>>
    /\ UNCHANGED <<profileVars, clientVars>>

\* GET /streak ----------------------------------------------------------------

\* The edge runtime's local time zone is UTC: setHours(0, 0, 0, 0) gives the
\* UTC midnight of the day.
StartOfDay(ms) == (ms \div DayMs) * DayMs

\* The dates sorted without the reverse(): the earliest first.
RECURSIVE SortAscending(_)
SortAscending(S) ==
    IF S = {} THEN <<>>
    ELSE LET least == CHOOSE d \in S : \A e \in S : d <= e
         IN <<least>> \o SortAscending(S \ {least})

\* Array.from(set).sort().reverse().  The dates are YYYY-MM-DD strings, whose
\* order as strings is the order of the days; a date stands as its day number.
RECURSIVE SortDescending(_)
SortDescending(S) ==
    IF S = {} THEN <<>>
    ELSE LET latest == CHOOSE d \in S : \A e \in S : d >= e
         IN <<latest>> \o SortDescending(S \ {latest})

\* kv.getByPrefix(`workout_history:${userId}:`)
HistoryOf(user) == {history[key] : key \in {k \in DOMAIN history : k[1] = user}}

\* The Set of completedAt.split("T")[0] over the records
UniqueDates(records) == {IsoDate(r.completedAt) : r \in records}

\* new Date(today); setDate(today.getDate() - i); toISOString().split("T")[0]
ExpectedDate(today, i) == IsoDate(today - i * DayMs)

\* The loop over dates, from index i (counted from 1 here) on.
RECURSIVE StreakLoop(_, _, _)
StreakLoop(dates, today, i) ==
    IF i <= Len(dates) /\ dates[i] = ExpectedDate(today, i - 1)
    THEN StreakLoop(dates, today, i + 1)
    ELSE i - 1

\* GET /streak, answered at the instant now.  The records were stamped by the
\* same clock at their completion, none later than now.
GetStreak(user, now) ==
    /\ user \in Users
    /\ \A r \in HistoryOf(user) : r.completedAt <= now
    /\ LET dates == SortDescending(UniqueDates(HistoryOf(user)))
           today == StartOfDay(now)
       IN lastReply' = Some([kind |-> "streak", status |-> 200,
                             reply |-> [streak |-> StreakLoop(dates, today, 1)]])
    /\ UNCHANGED <<sessions, history, weights, reqs, sent, logged, disturbed, failed,
                   completedIds>>
    /\ UNCHANGED <<profileVars, clientVars>>

\* ------------------------------------------- the ActiveWorkout component

\* currentExerciseIndex === null; the exercises are numbered from 1 here.
NoExercise == 0

\* What the user types into the logger's number fields.
RepTexts == {"", "9"}
WeightTexts == {"50"}

\* parseInt(text) || 0 and parseFloat(text) || 0 on those texts: the empty text
\* parses to NaN.
ParseIntOr0(text) == CASE text = "9" -> 9 [] text = "50" -> 50 [] OTHER -> 0
ParseFloatOr0(text) == CASE text = "9" -> 9 [] text = "50" -> 50 [] OTHER -> 0

\* The useState cells at construction.
InitialUi ==
    [sessionId |-> None,
     currentExerciseIndex |-> NoExercise,
     completedExercises |-> {},
     completedExerciseLogs |-> <<>>,
     workoutStartedAt |-> None,
     restTimer |-> 0,
     isResting |-> FALSE,
     restStartedAt |-> None,
     totalRestSeconds |-> 0,
     exerciseRestSeconds |-> <<>>,
     showSetLogger |-> FALSE,
     setsData |-> <<>>,
     weight |-> "",
     error |-> ""]

\* Which of the three views a render shows.
View(c) ==
    IF c.showSetLogger /\ c.currentExerciseIndex # NoExercise THEN "logger"
    ELSE IF c.currentExerciseIndex # NoExercise THEN "exercise"
    ELSE "list"

\* exerciseRestSeconds[index] ?? 0
RestOf(record, index) == IF index \in DOMAIN record THEN record[index] ELSE 0

\* Math.max(0, Math.round((Date.now() - restStartedAt) / 1000))
ElapsedSeconds(startedAt, now) == Max(0, RoundDiv(now - startedAt, MsPerSecond))

\* The state a handler is building: the cells after its updates, and the history.
Building(cells) == [ui |-> cells, rests |-> rests, notified |-> notified]

\* The rest period open in the history is marked ended.
EndRest(rs, now) ==
    IF rs # <<>> /\ rs[Len(rs)].endedAt = None
    THEN [rs EXCEPT ![Len(rs)].endedAt = Some(now)]
    ELSE rs

\* A finalize that adds the elapsed seconds to the session's total and leaves
\* the per-exercise accumulator alone.
finalizeRestTrackingTotalOnly(c, st, exerciseIndex, now) ==
    IF exerciseIndex = NoExercise \/ c.restStartedAt = None
    THEN st
    ELSE LET elapsedSeconds == ElapsedSeconds(Get(c.restStartedAt), now)
             n == Len(st.rests)
         IN [st EXCEPT
                !.ui.totalRestSeconds = @ + elapsedSeconds,
                !.ui.restStartedAt = None,
                !.rests[n].accruals = @ + 1,
                !.rests[n].seconds = @ + elapsedSeconds,
                !.rests[n].creditedTo = @ \cup {exerciseIndex}]

\* What Notification.permission may be when the component is opened.
Permissions == {"granted", "denied"}

\* sendNotification('Rest complete!', ...): a notification is made if the
\* permission is granted.
Sends == IF permission = "granted" THEN 1 ELSE 0

\* The notification is noted on the rest period it is for.
Notify(rs) == [rs EXCEPT ![Len(rs)].notifications = @ + Sends]

\* The countdown has come to 0 with the rest still running.
RunOut(rs) == [rs EXCEPT ![Len(rs)].ranOut = TRUE]

\* finalizeRestTracking(exerciseIndex), called in the render c: restStartedAt is
\* the value of that render, the sums are functional updates.
finalizeRestTracking(c, st, exerciseIndex, now) ==
    IF exerciseIndex = NoExercise \/ c.restStartedAt = None
    THEN st
    ELSE LET elapsedSeconds == ElapsedSeconds(Get(c.restStartedAt), now)
             n == Len(st.rests)
         IN [st EXCEPT
                !.ui.totalRestSeconds = @ + elapsedSeconds,
                !.ui.exerciseRestSeconds =
                    (exerciseIndex :> (RestOf(@, exerciseIndex) + elapsedSeconds)) @@ @,
                !.ui.restStartedAt = None,
                !.rests[n].accruals = @ + 1,
                !.rests[n].seconds = @ + elapsedSeconds,
                !.rests[n].creditedTo = @ \cup {exerciseIndex}]

\* The effect on [isResting, restTimer, currentExerciseIndex, restStartedAt],
\* run for the render c.
AutoFinalize(c, st, now) ==
    IF c.isResting /\ c.restTimer = 0
    THEN LET f == finalizeRestTracking(c, st, c.currentExerciseIndex, now)
         IN [f EXCEPT !.ui.isResting = FALSE,
                      !.rests = Notify(EndRest(@, now)),
                      !.notified = @ + Sends]
    ELSE st

\* React runs the effects of a render that are still pending before it renders
\* again: they read the cells of the render they belong to (c) and their
\* updates queue up behind the handler's.
FlushPending(c, st, now) ==
    IF effectPending THEN AutoFinalize(c, st, now) ELSE st

\* The effect on [isResting]: the countdown's interval is set when isResting
\* turns true and cleared when it turns false.
IntervalFollows(now) ==
    tickBase' = IF ~ui'.isResting THEN None
                ELSE IF ~ui.isResting THEN Some(now)
                ELSE tickBase

\* A click or an input event: the handler's updates are rendered at once and the
\* effects of that render run with it.
CommitNow(st, now) ==
    LET flushed == FlushPending(ui, st, now)
        final == AutoFinalize(flushed.ui, flushed, now)
    IN /\ ui' = final.ui
       /\ rests' = final.rests
       /\ notified' = final.notified
       /\ effectPending' = FALSE

\* A timer or a settled promise: the updates are rendered, the effects of that
\* render run later.
CommitLater(st, now) ==
    LET flushed == FlushPending(ui, st, now)
    IN /\ ui' = flushed.ui
       /\ rests' = flushed.rests
       /\ notified' = flushed.notified
       /\ effectPending' = (flushed.ui.isResting /\ flushed.ui.restTimer = 0)

\* The App renders ActiveWorkout on the 'active-workout' screen.
Mounted == screen = "active-workout"

\* The log-exercise calls awaiting their response.
LogCalls == {k \in DOMAIN calls : calls[k].kind = "log"}

Exercises == workout.exercises

\* -- the handlers of the list view

\* startExercise(index), the Start button of an exercise not completed yet.
\* new Array(exercise.sets) throws a RangeError for a negative length: the
\* update queued before it is rendered, the ones after it are not made.
startExercise(index) ==
    /\ Mounted
    /\ View(ui) = "list"
    /\ index \in DOMAIN Exercises
    /\ index \notin ui.completedExercises
    /\ LET exercise == Exercises[index]
           focused == [ui EXCEPT !.currentExerciseIndex = index]
           cells == IF exercise.sets < 0
                    THEN focused
                    ELSE [focused EXCEPT !.setsData = DefaultSetsData(exercise),
                                         !.weight = "",
                                         !.showSetLogger = FALSE]
       IN CommitNow(Building(cells), clientNow)
    /\ IntervalFollows(clientNow)
    /\ UNCHANGED <<planVars, screen, workout, permission, calls, summary, clientNow, edits>>
    /\ UNCHANGED <<serverVars, profileVars>>

\* A Complete Workout button that is shown whatever has been completed.
completeWorkoutAlwaysShown ==
    /\ Mounted
    /\ View(ui) = "list"
    /\ IsSome(ui.sessionId)
    /\ \A k \in DOMAIN calls : calls[k].kind # "complete"
    /\ LET st == Building(ui)
           closed == IF ui.isResting
                     THEN [finalizeRestTracking(ui, st, ui.currentExerciseIndex, clientNow)
                              EXCEPT !.ui.isResting = FALSE,
                                     !.ui.restTimer = 0,
                                     !.rests = EndRest(@, clientNow)]
                     ELSE st
       IN CommitNow(closed, clientNow)
    /\ IntervalFollows(clientNow)
    /\ calls' = Append(calls, [kind |-> "complete",
                               workoutStartedAt |-> ui.workoutStartedAt,
                               totalRestSeconds |-> ui.totalRestSeconds,
                               completedExerciseLogs |-> ui.completedExerciseLogs])
    /\ UNCHANGED <<planVars, screen, workout, permission, summary, clientNow, edits>>
    /\ UNCHANGED <<serverVars, profileVars>>

\* completeWorkout, the Complete Workout button: shown once every exercise is
\* in completedExercises.  One such call is outstanding at a time in these runs.
completeWorkout ==
    /\ Mounted
    /\ View(ui) = "list"
    /\ Cardinality(ui.completedExercises) = Len(Exercises)
    /\ IsSome(ui.sessionId)
    /\ \A k \in DOMAIN calls : calls[k].kind # "complete"
    /\ LET st == Building(ui)
           closed == IF ui.isResting
                     THEN [finalizeRestTracking(ui, st, ui.currentExerciseIndex, clientNow)
                              EXCEPT !.ui.isResting = FALSE,
                                     !.ui.restTimer = 0,
                                     !.rests = EndRest(@, clientNow)]
                     ELSE st
       IN CommitNow(closed, clientNow)
    /\ IntervalFollows(clientNow)
    /\ calls' = Append(calls, [kind |-> "complete",
                               workoutStartedAt |-> ui.workoutStartedAt,
                               totalRestSeconds |-> ui.totalRestSeconds,
                               completedExerciseLogs |-> ui.completedExerciseLogs])
    /\ UNCHANGED <<planVars, screen, workout, permission, summary, clientNow, edits>>
    /\ UNCHANGED <<serverVars, profileVars>>

\* -- the handlers of the exercise view

\* 'Back to exercises': setCurrentExerciseIndex(null)
backToExercises ==
    /\ Mounted
    /\ View(ui) = "exercise"
    /\ CommitNow(Building([ui EXCEPT !.currentExerciseIndex = NoExercise]), clientNow)
    /\ IntervalFollows(clientNow)
    /\ UNCHANGED <<planVars, screen, workout, permission, calls, summary, clientNow, edits>>
    /\ UNCHANGED <<serverVars, profileVars>>

\* startRest, the Start Rest Timer button (shown while not resting)
startRest ==
    /\ Mounted
    /\ View(ui) = "exercise"
    /\ ~ui.isResting
    /\ Len(rests) < MaxRests
    /\ LET exercise == Exercises[ui.currentExerciseIndex]
           cells == [ui EXCEPT !.restTimer = exercise.restTime,
                               !.restStartedAt = Some(clientNow),
                               !.isResting = TRUE]
           period == [exercise |-> ui.currentExerciseIndex,
                      startedAt |-> clientNow,
                      endedAt |-> None,
                      accruals |-> 0,
                      seconds |-> 0,
                      creditedTo |-> {},
                      ranOut |-> exercise.restTime = 0,
                      notifications |-> 0]
       IN CommitNow([Building(cells) EXCEPT !.rests = Append(@, period)], clientNow)
    /\ IntervalFollows(clientNow)
    /\ UNCHANGED <<planVars, screen, workout, permission, calls, summary, clientNow, edits>>
    /\ UNCHANGED <<serverVars, profileVars>>

\* finishSet, the Finish Exercise button (shown while not resting)
finishSet ==
    /\ Mounted
    /\ View(ui) = "exercise"
    /\ ~ui.isResting
    /\ CommitNow(Building([ui EXCEPT !.showSetLogger = TRUE]), clientNow)
    /\ IntervalFollows(clientNow)
    /\ UNCHANGED <<planVars, screen, workout, permission, calls, summary, clientNow, edits>>
    /\ UNCHANGED <<serverVars, profileVars>>

\* A Skip Rest that ends the rest as the countdown does, notification included.
skipRestNotifying ==
    /\ Mounted
    /\ View(ui) = "exercise"
    /\ ui.isResting
    /\ LET f == finalizeRestTracking(ui, Building(ui), ui.currentExerciseIndex, clientNow)
       IN CommitNow([f EXCEPT !.ui.isResting = FALSE,
                              !.ui.restTimer = 0,
                              !.rests = Notify(EndRest(@, clientNow)),
                              !.notified = @ + Sends],
                    clientNow)
    /\ IntervalFollows(clientNow)
    /\ UNCHANGED <<planVars, screen, workout, permission, calls, summary, clientNow, edits>>
    /\ UNCHANGED <<serverVars, profileVars>>

\* The Skip Rest button (shown while resting)
skipRest ==
    /\ Mounted
    /\ View(ui) = "exercise"
    /\ ui.isResting
    /\ LET f == finalizeRestTracking(ui, Building(ui), ui.currentExerciseIndex, clientNow)
       IN CommitNow([f EXCEPT !.ui.isResting = FALSE,
                              !.ui.restTimer = 0,
                              !.rests = EndRest(@, clientNow)],
                    clientNow)
    /\ IntervalFollows(clientNow)
    /\ UNCHANGED <<planVars, screen, workout, permission, calls, summary, clientNow, edits>>
    /\ UNCHANGED <<serverVars, profileVars>>

\* -- the handlers of the set logger

\* onChange of the k-th reps field: a copy of setsData with parseInt(text) || 0
changeReps(k, text) ==
    /\ Mounted
    /\ View(ui) = "logger"
    /\ k \in DOMAIN ui.setsData
    /\ edits < MaxEdits
    /\ edits' = edits + 1
    /\ CommitNow(Building([ui EXCEPT !.setsData[k] = ParseIntOr0(text)]), clientNow)
    /\ IntervalFollows(clientNow)
    /\ UNCHANGED <<planVars, screen, workout, permission, calls, summary, clientNow>>
    /\ UNCHANGED <<serverVars, profileVars>>

\* onChange of the weight field
changeWeight(text) ==
    /\ Mounted
    /\ View(ui) = "logger"
    /\ edits < MaxEdits
    /\ edits' = edits + 1
    /\ CommitNow(Building([ui EXCEPT !.weight = text]), clientNow)
    /\ IntervalFollows(clientNow)
    /\ UNCHANGED <<planVars, screen, workout, permission, calls, summary, clientNow>>
    /\ UNCHANGED <<serverVars, profileVars>>

\* The Cancel button
cancelLogger ==
    /\ Mounted
    /\ View(ui) = "logger"
    /\ CommitNow(Building([ui EXCEPT !.showSetLogger = FALSE]), clientNow)
    /\ IntervalFollows(clientNow)
    /\ UNCHANGED <<planVars, screen, workout, permission, calls, summary, clientNow, edits>>
    /\ UNCHANGED <<serverVars, profileVars>>

\* logExercise, the Save Exercise button, up to its await: the request is built
\* from the cells of this render, which the code after the await reads too.
logExercise ==
    /\ Mounted
    /\ View(ui) = "logger"
    /\ IsSome(ui.sessionId)
    /\ Len(ui.completedExerciseLogs) + Cardinality(LogCalls) < MaxLogs
    /\ calls' = Append(calls,
           [kind |-> "log",
            sessionId |-> Get(ui.sessionId),
            currentExerciseIndex |-> ui.currentExerciseIndex,
            exerciseName |-> Exercises[ui.currentExerciseIndex].name,
            setsData |-> ui.setsData,
            weight |-> ParseFloatOr0(ui.weight),
            restTakenSeconds |-> RestOf(ui.exerciseRestSeconds, ui.currentExerciseIndex),
            completedExercises |-> ui.completedExercises])
    /\ UNCHANGED <<planVars, screen, workout, permission, ui, effectPending, summary, clientNow, tickBase, rests,
                   notified, edits>>
    /\ UNCHANGED <<serverVars, profileVars>>

\* -- timers, effects and responses

\* The interval's callback, not before a second after the interval was set or
\* fired last: setRestTimer(prev => Math.max(prev - 1, 0)).  At 0 the update
\* changes nothing and nothing is rendered.
Tick ==
    /\ Mounted
    /\ ui.isResting
    /\ ui.restTimer # 0
    /\ IsSome(tickBase)
    /\ clientNow >= Get(tickBase) + MsPerSecond
    /\ LET cells == [ui EXCEPT !.restTimer = Max(@ - 1, 0)]
       IN CommitLater([Building(cells) EXCEPT
                          !.rests = IF cells.restTimer = 0 THEN RunOut(@) ELSE @],
                      clientNow)
    /\ tickBase' = Some(clientNow)
    /\ UNCHANGED <<planVars, screen, workout, permission, calls, summary, clientNow, edits>>
    /\ UNCHANGED <<serverVars, profileVars>>

\* The effects of the last render run before anything else happens.
RunEffects ==
    /\ Mounted
    /\ effectPending
    /\ CommitLater(Building(ui), clientNow)
    /\ IntervalFollows(clientNow)
    /\ UNCHANGED <<planVars, screen, workout, permission, calls, summary, clientNow, edits>>
    /\ UNCHANGED <<serverVars, profileVars>>

\* Time passes.  The component reads the clock only against restStartedAt, so
\* the time before a rest is started is left out; the second a countdown is
\* waiting for always passes.
ClockAdvances ==
    /\ Mounted
    /\ IsSome(ui.restStartedAt)
    /\ \/ clientNow < MaxClientClockSteps * HalfSecond
       \/ /\ ui.isResting
          /\ ui.restTimer # 0
          /\ IsSome(tickBase)
          /\ clientNow < Get(tickBase) + MsPerSecond
    /\ clientNow' = clientNow + HalfSecond
    /\ UNCHANGED <<planVars, screen, workout, permission, ui, effectPending, calls, summary, tickBase, rests,
                   notified, edits>>
    /\ UNCHANGED <<serverVars, profileVars>>

Pending(k, kind) == k \in DOMAIN calls /\ calls[k].kind = kind

\* The statuses of a response that is not ok.
FailureStatuses == {401, 500}

\* A catch that sends the failed call again.
RejectsAndResends(k, status, message) ==
    /\ Mounted
    /\ calls' = Append(Remove(calls, k), calls[k])
    /\ CommitLater(Building([ui EXCEPT !.error = message]), clientNow)
    /\ IntervalFollows(clientNow)
    /\ UNCHANGED <<planVars, screen, workout, permission, summary, clientNow, edits>>
    /\ UNCHANGED <<serverVars, profileVars>>

\* A call's promise rejects: parseResponse throws for a response that is not ok,
\* with the status in the Error's message.  The catch of the function that made
\* the call sets its own message and looks at nothing of the Error.
Rejects(k, status, message) ==
    /\ Mounted
    /\ calls' = Remove(calls, k)
    /\ CommitLater(Building([ui EXCEPT !.error = message]), clientNow)
    /\ IntervalFollows(clientNow)
    /\ UNCHANGED <<planVars, screen, workout, permission, summary, clientNow, edits>>
    /\ UNCHANGED <<serverVars, profileVars>>

\* startSession after its await, with a sessionId in the result
StartSessionResolves(k) ==
    /\ Mounted
    /\ Pending(k, "start")
    /\ calls' = Remove(calls, k)
    /\ CommitLater(Building([ui EXCEPT !.sessionId = Some("s1"),
                                       !.workoutStartedAt = Some(calls[k].startedAt)]),
                   clientNow)
    /\ IntervalFollows(clientNow)
    /\ UNCHANGED <<planVars, screen, workout, permission, summary, clientNow, edits>>
    /\ UNCHANGED <<serverVars, profileVars>>

StartSessionRejects(k, status) ==
    /\ Pending(k, "start")
    /\ Rejects(k, status, "Failed to start workout session")

\* logExercise after its await: completedExercises and currentExerciseIndex are
\* those of the render the button was clicked in.
LogExerciseResolves(k) ==
    /\ Mounted
    /\ Pending(k, "log")
    /\ calls' = Remove(calls, k)
    /\ LET call == calls[k]
           log == [exerciseName |-> call.exerciseName,
                   setsData |-> call.setsData,
                   weight |-> call.weight,
                   restTakenSeconds |-> call.restTakenSeconds]
       IN CommitLater(Building(
              [ui EXCEPT !.completedExercises =
                             call.completedExercises \cup {call.currentExerciseIndex},
                         !.completedExerciseLogs = Append(@, log),
                         !.currentExerciseIndex = NoExercise,
                         !.showSetLogger = FALSE]),
              clientNow)
    /\ IntervalFollows(clientNow)
    /\ UNCHANGED <<planVars, screen, workout, permission, summary, clientNow, edits>>
    /\ UNCHANGED <<serverVars, profileVars>>

LogExerciseRejects(k, status) ==
    /\ Pending(k, "log")
    /\ Rejects(k, status, "Failed to log exercise")

\* What a complete-workout response may carry as totalRestSeconds: nothing, or
\* the server's sum.
RepliedRest == {None, Some(0)}

\* completeWorkout after its await: onComplete is given the summary and the
\* App (handleWorkoutComplete) shows the summary screen in its place.
CompleteWorkoutResolves(k, replied) ==
    /\ Mounted
    /\ Pending(k, "complete")
    /\ calls' = Remove(calls, k)
    /\ summary' = Some([totalRestSeconds |->
                            IF IsSome(replied) THEN Get(replied)
                            ELSE calls[k].totalRestSeconds,
                        exercises |-> calls[k].completedExerciseLogs])
    /\ screen' = "workout-summary"
    /\ UNCHANGED <<planVars, workout, permission, ui, effectPending, clientNow, tickBase, rests,
                   notified, edits>>
    /\ UNCHANGED <<serverVars, profileVars>>

CompleteWorkoutRejects(k, status) ==
    /\ Pending(k, "complete")
    /\ Rejects(k, status, "Failed to complete workout")

\* ------------------------------------------------------- the workout plan

\* The days offered by the setup: the first two of DAYS_OF_WEEK.
DAYS_OF_WEEK == <<"Monday", "Tuesday">>

\* What the user types into a number field of an exercise, and as its name.
NumberTexts == {"", "-1", "5"}
NameTexts == {"squat"}

\* The number fields of an exercise.
NumberFields == {"sets", "minReps", "maxReps", "restTime"}

\* parseInt(text): NaN for the empty text.
NaN == <<"nan">>
ParseInt(text) == CASE text = "5" -> Num(5) [] text = "-1" -> Num(0 - 1) [] OTHER -> NaN

\* JSON.stringify writes NaN as null, and a number as it is.
Null == <<"null">>
ToJson(v) == IF v = NaN THEN Null ELSE v

\* String(value) read by parseInt(_, 10): the integer itself, NaN for "NaN" and
\* for "null".
ParseIntOfString(v) == IF v[1] = "num" THEN v ELSE NaN

\* toPositiveInt, on the value parseInt gave: the fallback unless it is finite
\* and above 0.
toPositiveInt(parsed, fallback) ==
    IF parsed[1] = "num" /\ parsed[2] > 0 THEN parsed ELSE Num(fallback)

\* The fallbacks of the editor's number fields.
FallbackOf(field) == IF field = "restTime" THEN 30 ELSE 1

\* { name: '', sets: 3, minReps: 8, maxReps: 12, restTime: 60 }
NewExercise ==
    [name |-> "", sets |-> Num(3), minReps |-> Num(8), maxReps |-> Num(12),
     restTime |-> Num(60)]

Range(seq) == {seq[k] : k \in DOMAIN seq}

\* The exercises of all days of a plan.
RECURSIVE ExerciseCount(_)
ExerciseCount(plan) ==
    IF plan = <<>> THEN 0
    ELSE Len(Head(plan).exercises) + ExerciseCount(Tail(plan))

\* workoutPlan.findIndex(w => w.day === currentDay), from 1; 0 when not found
IndexOfDay(plan, day) ==
    IF \E k \in DOMAIN plan : plan[k].day = day
    THEN CHOOSE k \in DOMAIN plan :
             plan[k].day = day /\ \A j \in 1..(k - 1) : plan[j].day # day
    ELSE 0

\* The body of a POST /workout-plan as JSON.stringify writes it.
PlanToJson(plan) ==
    [d \in DOMAIN plan |->
        [day |-> plan[d].day,
         exercises |->
            [e \in DOMAIN plan[d].exercises |->
                LET ex == plan[d].exercises[e]
                IN [name |-> ex.name, sets |-> ToJson(ex.sets),
                    minReps |-> ToJson(ex.minReps), maxReps |-> ToJson(ex.maxReps),
                    restTime |-> ToJson(ex.restTime)]]]]

\* The useState cells of WorkoutPlanSetup at construction.
InitialSetup ==
    [selectedDays |-> <<>>, workoutPlan |-> <<>>, currentDay |-> None, error |-> ""]

\* No plan is saved and neither component is on screen.
PlanAtRest ==
    /\ setup = InitialSetup
    /\ preview = None
    /\ savedPlan = None

OnSetup == screen = "workout-setup"

\* removeDay(day)
removeDay(day) ==
    LET remaining == SelectSeq(setup.selectedDays, LAMBDA d : d # day)
    IN setup' = [setup EXCEPT
                    !.selectedDays = remaining,
                    !.workoutPlan = SelectSeq(@, LAMBDA w : w.day # day),
                    !.currentDay = IF @ = Some(day)
                                   THEN (IF remaining = <<>> THEN None
                                         ELSE Some(Head(remaining)))
                                   ELSE @]

\* toggleDay(day), a day button.  On a selected day that has exercises a dialog
\* asks first; its confirmation, which calls removeDay too, is taken as given.
toggleDay(day) ==
    /\ OnSetup
    /\ IF day \in Range(setup.selectedDays)
       THEN removeDay(day)
       ELSE setup' = [setup EXCEPT
                         !.selectedDays = Append(@, day),
                         !.workoutPlan = Append(@, [day |-> day, exercises |-> <<>>]),
                         !.currentDay = Some(day)]
    /\ UNCHANGED <<preview, savedPlan, screen, workout, permission, ui, effectPending, calls,
                   summary, clientNow, tickBase, rests, notified, edits>>
    /\ UNCHANGED <<serverVars, profileVars>>

\* addExercise, the Add Exercise button of the current day
addExercise ==
    /\ OnSetup
    /\ IsSome(setup.currentDay)
    /\ ExerciseCount(setup.workoutPlan) < MaxPlanExercises
    /\ LET d == IndexOfDay(setup.workoutPlan, Get(setup.currentDay))
       IN setup' = [setup EXCEPT !.workoutPlan[d].exercises = Append(@, NewExercise)]
    /\ UNCHANGED <<preview, savedPlan, screen, workout, permission, ui, effectPending, calls,
                   summary, clientNow, tickBase, rests, notified, edits>>
    /\ UNCHANGED <<serverVars, profileVars>>

\* updateExercise(currentDayIndex, exerciseIndex, field, value): the value is
\* stored as the field's onChange passes it.
updateExercise(exerciseIndex, field, value) ==
    /\ OnSetup
    /\ IsSome(setup.currentDay)
    /\ LET d == IndexOfDay(setup.workoutPlan, Get(setup.currentDay))
       IN /\ exerciseIndex \in DOMAIN setup.workoutPlan[d].exercises
          /\ setup' = [setup EXCEPT !.workoutPlan[d].exercises[exerciseIndex][field] = value]

\* onChange of the name field
changeName(exerciseIndex, text) ==
    /\ updateExercise(exerciseIndex, "name", text)
    /\ UNCHANGED <<preview, savedPlan, screen, workout, permission, ui, effectPending, calls,
                   summary, clientNow, tickBase, rests, notified, edits>>
    /\ UNCHANGED <<serverVars, profileVars>>

\* onChange of a number field: parseInt(e.target.value)
changeNumber(exerciseIndex, field, text) ==
    /\ edits < MaxEdits
    /\ edits' = edits + 1
    /\ updateExercise(exerciseIndex, field, ParseInt(text))
    /\ UNCHANGED <<preview, savedPlan, screen, workout, permission, ui, effectPending, calls,
                   summary, clientNow, tickBase, rests, notified>>
    /\ UNCHANGED <<serverVars, profileVars>>

\* removeExercise(currentDayIndex, exerciseIndex)
removeExercise(exerciseIndex) ==
    /\ OnSetup
    /\ IsSome(setup.currentDay)
    /\ LET d == IndexOfDay(setup.workoutPlan, Get(setup.currentDay))
           exercises == setup.workoutPlan[d].exercises
       IN /\ exerciseIndex \in DOMAIN exercises
          /\ setup' = [setup EXCEPT
                          !.workoutPlan[d].exercises = Remove(exercises, exerciseIndex)]
    /\ UNCHANGED <<preview, savedPlan, screen, workout, permission, ui, effectPending, calls,
                   summary, clientNow, tickBase, rests, notified, edits>>
    /\ UNCHANGED <<serverVars, profileVars>>

\* handleSubmit, the save button (disabled while the plan has no day), with the
\* POST /workout-plan it sends, which stores the plan of the body as it is, and
\* onComplete, after which the App shows the dashboard.
handleSubmit ==
    /\ OnSetup
    /\ setup.workoutPlan # <<>>
    /\ LET hasEmptyExercises ==
               \E d \in DOMAIN setup.workoutPlan :
                   \E e \in DOMAIN setup.workoutPlan[d].exercises :
                       setup.workoutPlan[d].exercises[e].name = ""
       IN IF hasEmptyExercises
          THEN /\ setup' = [setup EXCEPT !.error = "Please fill in all exercise names"]
               /\ UNCHANGED <<savedPlan, screen>>
          ELSE /\ setup' = [setup EXCEPT !.error = ""]
               /\ savedPlan' = Some(PlanToJson(setup.workoutPlan))
               /\ screen' = "dashboard"
    /\ UNCHANGED <<preview, workout, permission, ui, effectPending, calls,
                   summary, clientNow, tickBase, rests, notified, edits>>
    /\ UNCHANGED <<serverVars, profileVars>>

\* -- the per-day editor of WorkoutPreview

\* A day's View button on the dashboard: handleViewWorkout
handleViewWorkout(k) ==
    /\ screen = "dashboard"
    /\ IsSome(savedPlan)
    /\ k \in DOMAIN Get(savedPlan)
    /\ screen' = "workout-preview"
    /\ preview' = Some([currentWorkout |-> Get(savedPlan)[k],
                        isEditingWorkout |-> FALSE,
                        editableExercises |-> <<>>,
                        saveWorkoutError |-> ""])
    /\ UNCHANGED <<setup, savedPlan, workout, permission, ui, effectPending, calls,
                   summary, clientNow, tickBase, rests, notified, edits>>
    /\ UNCHANGED <<serverVars, profileVars>>

OnEditor == screen = "workout-preview" /\ IsSome(preview) /\ Get(preview).isEditingWorkout

\* startWorkoutEdit
startWorkoutEdit ==
    /\ screen = "workout-preview"
    /\ IsSome(preview)
    /\ ~Get(preview).isEditingWorkout
    /\ preview' = Some([Get(preview) EXCEPT
                           !.editableExercises = Get(preview).currentWorkout.exercises,
                           !.isEditingWorkout = TRUE,
                           !.saveWorkoutError = ""])
    /\ UNCHANGED <<setup, savedPlan, screen, workout, permission, ui, effectPending, calls,
                   summary, clientNow, tickBase, rests, notified, edits>>
    /\ UNCHANGED <<serverVars, profileVars>>

\* addEditableExercise
addEditableExercise ==
    /\ OnEditor
    /\ Len(Get(preview).editableExercises) < MaxPlanExercises
    /\ preview' = Some([Get(preview) EXCEPT !.editableExercises = Append(@, NewExercise)])
    /\ UNCHANGED <<setup, savedPlan, screen, workout, permission, ui, effectPending, calls,
                   summary, clientNow, tickBase, rests, notified, edits>>
    /\ UNCHANGED <<serverVars, profileVars>>

\* removeEditableExercise(index)
removeEditableExercise(index) ==
    /\ OnEditor
    /\ index \in DOMAIN Get(preview).editableExercises
    /\ preview' = Some([Get(preview) EXCEPT !.editableExercises = Remove(@, index)])
    /\ UNCHANGED <<setup, savedPlan, screen, workout, permission, ui, effectPending, calls,
                   summary, clientNow, tickBase, rests, notified, edits>>
    /\ UNCHANGED <<serverVars, profileVars>>

\* updateEditableExercise(index, field, value)
updateEditableExercise(index, field, value) ==
    /\ OnEditor
    /\ index \in DOMAIN Get(preview).editableExercises
    /\ preview' = Some([Get(preview) EXCEPT !.editableExercises[index][field] = value])

\* onChange of the editor's name field
changeEditableName(index, text) ==
    /\ updateEditableExercise(index, "name", text)
    /\ UNCHANGED <<setup, savedPlan, screen, workout, permission, ui, effectPending, calls,
                   summary, clientNow, tickBase, rests, notified, edits>>
    /\ UNCHANGED <<serverVars, profileVars>>

\* onChange of a number field of the editor: toPositiveInt(e.target.value, fallback)
changeEditableNumber(index, field, text) ==
    /\ edits < MaxEdits
    /\ edits' = edits + 1
    /\ updateEditableExercise(index, field,
                              toPositiveInt(ParseInt(text), FallbackOf(field)))
    /\ UNCHANGED <<setup, savedPlan, screen, workout, permission, ui, effectPending, calls,
                   summary, clientNow, tickBase, rests, notified>>
    /\ UNCHANGED <<serverVars, profileVars>>

\* The exercises of the editor as saveWorkoutEdits normalises them.
NormalizedExercise(exercise) ==
    LET minReps == toPositiveInt(ParseIntOfString(exercise.minReps), 1)
        maxRepsRaw == toPositiveInt(ParseIntOfString(exercise.maxReps), minReps[2])
        maxReps == Num(Max(maxRepsRaw[2], minReps[2]))
    IN [name |-> exercise.name,
        sets |-> toPositiveInt(ParseIntOfString(exercise.sets), 1),
        minReps |-> minReps,
        maxReps |-> maxReps,
        restTime |-> toPositiveInt(ParseIntOfString(exercise.restTime), 30)]

\* saveWorkoutEdits, with the GET and the POST /workout-plan it sends: the day
\* edited is replaced in the plan the server holds (or added to it), the other
\* days are sent back as they were read.
saveWorkoutEdits ==
    /\ OnEditor
    /\ LET p == Get(preview)
           hasEmptyName == \E e \in DOMAIN p.editableExercises :
                               p.editableExercises[e].name = ""
           normalizedExercises ==
               [e \in DOMAIN p.editableExercises |->
                   NormalizedExercise(p.editableExercises[e])]
           existingPlan == IF IsSome(savedPlan) THEN Get(savedPlan) ELSE <<>>
           dayExists == \E d \in DOMAIN existingPlan :
                            existingPlan[d].day = p.currentWorkout.day
           updatedPlan ==
               IF dayExists
               THEN [d \in DOMAIN existingPlan |->
                        IF existingPlan[d].day = p.currentWorkout.day
                        THEN [existingPlan[d] EXCEPT !.exercises = normalizedExercises]
                        ELSE existingPlan[d]]
               ELSE Append(existingPlan, [day |-> p.currentWorkout.day,
                                          exercises |-> normalizedExercises])
       IN IF hasEmptyName
          THEN /\ preview' = Some([p EXCEPT !.saveWorkoutError =
                                      "Please fill in all exercise names before saving."])
               /\ UNCHANGED savedPlan
          ELSE IF p.editableExercises = <<>>
          THEN /\ preview' = Some([p EXCEPT !.saveWorkoutError =
                            "Please keep at least one exercise for this workout day."])
               /\ UNCHANGED savedPlan
          ELSE /\ savedPlan' = Some(PlanToJson(updatedPlan))
               /\ preview' = Some([p EXCEPT
                                      !.currentWorkout.exercises = normalizedExercises,
                                      !.isEditingWorkout = FALSE,
                                      !.editableExercises = <<>>,
                                      !.saveWorkoutError = ""])
    /\ UNCHANGED <<setup, screen, workout, permission, ui, effectPending, calls,
                   summary, clientNow, tickBase, rests, notified, edits>>
    /\ UNCHANGED <<serverVars, profileVars>>

\* handleBackClick; the dialog about unsaved edits is taken as confirmed.
handleBackClick ==
    /\ screen = "workout-preview"
    /\ screen' = "dashboard"
    /\ preview' = None
    /\ UNCHANGED <<setup, savedPlan, workout, permission, ui, effectPending, calls,
                   summary, clientNow, tickBase, rests, notified, edits>>
    /\ UNCHANGED <<serverVars, profileVars>>

\* ------------------------------------------------ body metrics (user info)

\* Weights, heights, ages and body-fat percentages are held in tenths, so that
\* Math.round has something to round.
Tenths == 10

\* Math.round on a value in tenths
MathRound(n) == RoundDiv(n, Tenths) * Tenths

\* Number(x) of a JSON value: a number, or NaN
NumberOf(j) ==
    CASE j[1] = "num" -> j
      [] j = Str("") -> Num(0)
      [] j = Null -> Num(0)
      [] OTHER -> NaN

\* Number.isFinite
IsFinite(v) == v # NaN

\* The bodies a client may send with POST /user-info and PUT /user-info-history.
ValidPayloads ==
    {[weight |-> Num(700), height |-> Num(1800), age |-> Num(305), bodyFat |-> Null],
     [weight |-> Num(800), height |-> Num(1800), age |-> Num(300), bodyFat |-> Num(200)]}

InvalidPayloads ==
    {[weight |-> Num(0), height |-> Num(1800), age |-> Num(300), bodyFat |-> Null],
     [weight |-> Num(700), height |-> Str("abc"), age |-> Num(300), bodyFat |-> Null],
     [weight |-> Num(700), height |-> Num(1800), age |-> Num(0 - 10), bodyFat |-> Null],
     [weight |-> Num(700), height |-> Num(1800), age |-> Num(300), bodyFat |-> Num(1010)]}

Payloads == ValidPayloads \cup InvalidPayloads

parseUserInfoPayload(payload) ==
    LET weight == NumberOf(payload.weight)
        height == NumberOf(payload.height)
        age == NumberOf(payload.age)
        bodyFatRaw == payload.bodyFat
        given == bodyFatRaw # Null /\ bodyFatRaw # Str("")
        parsedBodyFat == NumberOf(bodyFatRaw)
    IN IF ~IsFinite(weight) \/ weight[2] <= 0
       THEN [data |-> None, error |-> "Invalid weight"]
       ELSE IF ~IsFinite(height) \/ height[2] <= 0
       THEN [data |-> None, error |-> "Invalid height"]
       ELSE IF ~IsFinite(age) \/ age[2] <= 0
       THEN [data |-> None, error |-> "Invalid age"]
       ELSE IF given /\ (\/ ~IsFinite(parsedBodyFat)
                         \/ parsedBodyFat[2] < 0
                         \/ parsedBodyFat[2] > 100 * Tenths)
       THEN [data |-> None, error |-> "Invalid body fat percentage"]
       ELSE [data |-> Some([weight |-> weight[2],
                            height |-> height[2],
                            age |-> MathRound(age[2]),
                            bodyFat |-> IF given THEN parsedBodyFat ELSE Null]),
             error |-> ""]

\* `${Date.now()}_${crypto.randomUUID().slice(0, 8)}`: the random part is taken
\* to be fresh at every draw.
NewEntryId(now, drawn) == <<"entry", now, drawn>>

\* `legacy_${Date.now()}`
LegacyEntryId(now) == <<"legacy", now, 0>>

\* An id no entry was ever given.
NoSuchEntryId == <<"absent", 0, 0>>

HistoryEntry(entryId, data, recordedAt, updatedAt) ==
    [entryId |-> entryId, weight |-> data.weight, height |-> data.height,
     age |-> data.age, bodyFat |-> data.bodyFat,
     recordedAt |-> recordedAt, updatedAt |-> updatedAt]

\* asHistoryEntry(await kv.get(key)): the entries in the store were all written
\* by these handlers, with every field of its type.
asHistoryEntry(entryId) ==
    IF entryId \in DOMAIN userInfoHistory THEN Some(userInfoHistory[entryId]) ELSE None

\* sortHistoryDesc(entries)[0]: the sort is by recordedAt only and the store
\* returns the entries in no given order, so any entry recorded last may be first.
sortHistoryDescFirst(entries) ==
    {e \in entries : \A f \in entries : f.recordedAt <= e.recordedAt}

latestProfileFromEntry(entry) ==
    [weight |-> entry.weight, height |-> entry.height, age |-> entry.age,
     bodyFat |-> entry.bodyFat, updatedAt |-> entry.updatedAt]

\* The handler's locals.
NoLocals == [data |-> None, entry |-> None, profile |-> None, legacy |-> None]

InfoRequest(kind, entryId, body) ==
    [kind |-> kind, entryId |-> entryId, body |-> body, pc |-> "recv",
     local |-> NoLocals]

\* A request is sent from a tab that has none outstanding.
SendInfo(t, kind, entryId, body) ==
    /\ infoSent < MaxInfoRequests
    /\ infoReqs[t] = None
    /\ infoSent' = infoSent + 1
    /\ infoReqs' = [infoReqs EXCEPT ![t] = Some(InfoRequest(kind, entryId, body))]
    /\ UNCHANGED <<userInfoLatest, userInfoHistory, infoReply, infoClock, idsIssued>>
    /\ UNCHANGED <<serverVars, clientVars>>

NoPayload == [weight |-> Null, height |-> Null, age |-> Null, bodyFat |-> Null]

ApiSaveUserInfo(t, body) == SendInfo(t, "post", NoSuchEntryId, body)
ApiGetUserInfo(t) == SendInfo(t, "getInfo", NoSuchEntryId, NoPayload)
ApiGetUserInfoHistory(t) == SendInfo(t, "getHistory", NoSuchEntryId, NoPayload)
ApiUpdateUserInfoHistory(t, entryId, body) == SendInfo(t, "put", entryId, body)

InfoAt(t, kind, pc) ==
    /\ IsSome(infoReqs[t])
    /\ Get(infoReqs[t]).kind = kind
    /\ Get(infoReqs[t]).pc = pc

InfoStep(t, pc, local) ==
    /\ infoReqs' = [infoReqs EXCEPT ![t] = Some([Get(@) EXCEPT !.pc = pc, !.local = local])]
    /\ UNCHANGED infoReply

\* jsonResponse(data, status): the handler returns.
InfoAnswer(t, status, reply) ==
    /\ infoReqs' = [infoReqs EXCEPT ![t] = None]
    /\ infoReply' = Some([tab |-> t, kind |-> Get(infoReqs[t]).kind,
                          body |-> Get(infoReqs[t]).body,
                          status |-> status, reply |-> reply])

\* Time passes on the server.
InfoClockAdvances ==
    /\ infoClock < MaxInfoClockSteps
    /\ infoClock' = infoClock + 1
    /\ UNCHANGED <<userInfoLatest, userInfoHistory, infoReqs, infoSent, infoReply,
                   idsIssued>>
    /\ UNCHANGED <<serverVars, clientVars>>

\* What each handler does when `await ensureUserInfoHistory(...)` hands it the
\* history, up to its next store operation.
EnsureReturns(t, found) ==
    LET r == Get(infoReqs[t])
    IN CASE r.kind = "post" ->
              LET entryId == NewEntryId(infoClock, idsIssued + 1)
                  historyEntry == HistoryEntry(entryId, Get(r.local.data),
                                               infoClock, infoClock)
              IN /\ idsIssued' = idsIssued + 1
                 /\ InfoStep(t, "setHistory", [r.local EXCEPT !.entry = Some(historyEntry)])
         [] r.kind = "put" ->
              /\ UNCHANGED idsIssued
              /\ \E latestEntry \in IF found = {} THEN {Get(r.local.entry)}
                                    ELSE sortHistoryDescFirst(found) :
                    InfoStep(t, "setLatest",
                             [r.local EXCEPT
                                !.profile = Some(latestProfileFromEntry(latestEntry))])
         [] r.kind = "getInfo" ->
              /\ UNCHANGED idsIssued
              /\ IF found = {}
                 THEN InfoAnswer(t, 200, [profile |-> None])
                 ELSE \E latestEntry \in sortHistoryDescFirst(found) :
                         InfoStep(t, "setLatest",
                                  [r.local EXCEPT
                                     !.profile = Some(latestProfileFromEntry(latestEntry))])
         [] OTHER ->
              /\ UNCHANGED idsIssued
              /\ InfoAnswer(t, 200, [history |-> found])

\* ensureUserInfoHistory: kv.getByPrefix of the user's history.
EnsureGetByPrefix(t) ==
    /\ IsSome(infoReqs[t])
    /\ Get(infoReqs[t]).pc = "ensure"
    /\ LET parsedHistory == {userInfoHistory[id] : id \in DOMAIN userInfoHistory}
       IN IF parsedHistory # {}
          THEN EnsureReturns(t, parsedHistory)
          ELSE /\ InfoStep(t, "ensureLatest", Get(infoReqs[t]).local)
               /\ UNCHANGED idsIssued
    /\ UNCHANGED <<userInfoLatest, userInfoHistory, infoSent, infoClock>>
    /\ UNCHANGED <<serverVars, clientVars>>

\* ensureUserInfoHistory, the history being empty: kv.get of the latest profile,
\* of which a legacy entry is made.
EnsureGetLatest(t) ==
    /\ IsSome(infoReqs[t])
    /\ Get(infoReqs[t]).pc = "ensureLatest"
    /\ IF userInfoLatest = None
       THEN EnsureReturns(t, {})
       ELSE LET latestObj == Get(userInfoLatest)
                snapshotParse ==
                    parseUserInfoPayload([weight |-> Num(latestObj.weight),
                                          height |-> Num(latestObj.height),
                                          age |-> Num(latestObj.age),
                                          bodyFat |-> latestObj.bodyFat])
                recordedAt == latestObj.updatedAt
                legacyEntry == HistoryEntry(LegacyEntryId(infoClock),
                                            Get(snapshotParse.data),
                                            recordedAt, recordedAt)
            IN IF snapshotParse.data = None
               THEN EnsureReturns(t, {})
               ELSE /\ InfoStep(t, "ensureSet",
                                [Get(infoReqs[t]).local EXCEPT
                                   !.legacy = Some(legacyEntry)])
                    /\ UNCHANGED idsIssued
    /\ UNCHANGED <<userInfoLatest, userInfoHistory, infoSent, infoClock>>
    /\ UNCHANGED <<serverVars, clientVars>>

\* ensureUserInfoHistory: kv.set of the legacy entry.
EnsureSetLegacy(t) ==
    /\ IsSome(infoReqs[t])
    /\ Get(infoReqs[t]).pc = "ensureSet"
    /\ LET legacyEntry == Get(Get(infoReqs[t]).local.legacy)
       IN /\ userInfoHistory' = KvSet(userInfoHistory, legacyEntry.entryId, legacyEntry)
          /\ EnsureReturns(t, {legacyEntry})
    /\ UNCHANGED <<userInfoLatest, infoSent, infoClock>>
    /\ UNCHANGED <<serverVars, clientVars>>

\* POST /user-info: the body is parsed.
PostUserInfo(t) ==
    /\ InfoAt(t, "post", "recv")
    /\ LET parseResult == parseUserInfoPayload(Get(infoReqs[t]).body)
       IN IF parseResult.data = None
          THEN InfoAnswer(t, 400, [error |-> parseResult.error])
          ELSE InfoStep(t, "ensure", [NoLocals EXCEPT !.data = parseResult.data])
    /\ UNCHANGED <<userInfoLatest, userInfoHistory, infoSent, infoClock, idsIssued>>
    /\ UNCHANGED <<serverVars, clientVars>>

\* POST /user-info: kv.set of the history entry.
PostSetHistory(t) ==
    /\ InfoAt(t, "post", "setHistory")
    /\ LET historyEntry == Get(Get(infoReqs[t]).local.entry)
       IN /\ userInfoHistory' = KvSet(userInfoHistory, historyEntry.entryId, historyEntry)
          /\ InfoStep(t, "setLatest",
                      [Get(infoReqs[t]).local EXCEPT
                         !.profile = Some(latestProfileFromEntry(historyEntry))])
    /\ UNCHANGED <<userInfoLatest, infoSent, infoClock, idsIssued>>
    /\ UNCHANGED <<serverVars, clientVars>>

\* POST /user-info: kv.set of the latest profile, and the response.
PostSetLatest(t) ==
    /\ InfoAt(t, "post", "setLatest")
    /\ userInfoLatest' = Get(infoReqs[t]).local.profile
    /\ InfoAnswer(t, 200, [success |-> TRUE, entry |-> Get(infoReqs[t]).local.entry])
    /\ UNCHANGED <<userInfoHistory, infoSent, infoClock, idsIssued>>
    /\ UNCHANGED <<serverVars, clientVars>>

\* GET /user-info: kv.get of the latest profile.
GetUserInfo(t) ==
    /\ InfoAt(t, "getInfo", "recv")
    /\ IF userInfoLatest # None
       THEN InfoAnswer(t, 200, [profile |-> userInfoLatest])
       ELSE InfoStep(t, "ensure", NoLocals)
    /\ UNCHANGED <<userInfoLatest, userInfoHistory, infoSent, infoClock, idsIssued>>
    /\ UNCHANGED <<serverVars, clientVars>>

\* GET /user-info, no profile being cached: kv.set of the one made of the history.
GetUserInfoSetLatest(t) ==
    /\ InfoAt(t, "getInfo", "setLatest")
    /\ userInfoLatest' = Get(infoReqs[t]).local.profile
    /\ InfoAnswer(t, 200, [profile |-> Get(infoReqs[t]).local.profile])
    /\ UNCHANGED <<userInfoHistory, infoSent, infoClock, idsIssued>>
    /\ UNCHANGED <<serverVars, clientVars>>

\* GET /user-info-history
GetUserInfoHistory(t) ==
    /\ InfoAt(t, "getHistory", "recv")
    /\ InfoStep(t, "ensure", NoLocals)
    /\ UNCHANGED <<userInfoLatest, userInfoHistory, infoSent, infoClock, idsIssued>>
    /\ UNCHANGED <<serverVars, clientVars>>

\* A handler that stamps the entry before it looks at the body: updatedAt is
\* written even when the body is refused.
PutUserInfoHistoryStampingFirst(t) ==
    /\ InfoAt(t, "put", "recv")
    /\ LET r == Get(infoReqs[t])
           existing == asHistoryEntry(r.entryId)
           parseResult == parseUserInfoPayload(r.body)
           stamped == [Get(existing) EXCEPT !.updatedAt = infoClock]
           updatedEntry == HistoryEntry(Get(existing).entryId, Get(parseResult.data),
                                        Get(existing).recordedAt, infoClock)
       IN IF existing = None
          THEN /\ InfoAnswer(t, 404, [error |-> "History entry not found"])
               /\ UNCHANGED userInfoHistory
          ELSE /\ userInfoHistory' = KvSet(userInfoHistory, r.entryId, stamped)
               /\ IF parseResult.data = None
                  THEN InfoAnswer(t, 400, [error |-> parseResult.error])
                  ELSE InfoStep(t, "setHistory",
                                [NoLocals EXCEPT !.entry = Some(updatedEntry)])
    /\ UNCHANGED <<userInfoLatest, infoSent, infoClock, idsIssued>>
    /\ UNCHANGED <<serverVars, clientVars>>

\* PUT /user-info-history/:id: kv.get of the entry, then the body is parsed.
PutUserInfoHistory(t) ==
    /\ InfoAt(t, "put", "recv")
    /\ LET r == Get(infoReqs[t])
           existing == asHistoryEntry(r.entryId)
           parseResult == parseUserInfoPayload(r.body)
           updatedEntry == HistoryEntry(Get(existing).entryId, Get(parseResult.data),
                                        Get(existing).recordedAt, infoClock)
       IN IF existing = None
          THEN InfoAnswer(t, 404, [error |-> "History entry not found"])
          ELSE IF parseResult.data = None
          THEN InfoAnswer(t, 400, [error |-> parseResult.error])
          ELSE InfoStep(t, "setHistory", [NoLocals EXCEPT !.entry = Some(updatedEntry)])
    /\ UNCHANGED <<userInfoLatest, userInfoHistory, infoSent, infoClock, idsIssued>>
    /\ UNCHANGED <<serverVars, clientVars>>

\* PUT /user-info-history/:id: kv.set of the entry under the id of the path.
PutSetHistory(t) ==
    /\ InfoAt(t, "put", "setHistory")
    /\ userInfoHistory' = KvSet(userInfoHistory, Get(infoReqs[t]).entryId,
                                Get(Get(infoReqs[t]).local.entry))
    /\ InfoStep(t, "ensure", Get(infoReqs[t]).local)
    /\ UNCHANGED <<userInfoLatest, infoSent, infoClock, idsIssued>>
    /\ UNCHANGED <<serverVars, clientVars>>

\* PUT /user-info-history/:id: kv.set of the latest profile, and the response.
PutSetLatest(t) ==
    /\ InfoAt(t, "put", "setLatest")
    /\ userInfoLatest' = Get(infoReqs[t]).local.profile
    /\ InfoAnswer(t, 200, [success |-> TRUE, entry |-> Get(infoReqs[t]).local.entry])
    /\ UNCHANGED <<userInfoHistory, infoSent, infoClock, idsIssued>>
    /\ UNCHANGED <<serverVars, clientVars>>

\* No body metrics are stored and no request was sent.
ProfileAtRest ==
    /\ userInfoLatest = None
    /\ userInfoHistory = <<>>
    /\ infoReqs = [t \in Tabs |-> None]
    /\ infoSent = 0
    /\ infoReply = None
    /\ infoClock = 0
    /\ idsIssued = 0

\* ------------------------------------------------------------ specification

\* The store is empty and no request was sent.
ServerAtRest ==
    /\ sessions = <<>>
    /\ history = <<>>
    /\ weights = <<>>
    /\ reqs = <<>>
    /\ sent = 0
    /\ lastReply = None
    /\ logged = <<>>
    /\ disturbed = {}
    /\ failed = {}
    /\ completedIds = {}
    /\ ProfileAtRest

\* No component is on screen.
ClientAtRest ==
    /\ screen = "auth"
    /\ PlanAtRest
    /\ workout = Workout
    /\ permission = "granted"
    /\ ui = InitialUi
    /\ effectPending = FALSE
    /\ calls = <<>>
    /\ summary = None
    /\ clientNow = 0
    /\ tickBase = None
    /\ rests = <<>>
    /\ notified = 0
    /\ edits = 0

\* The server, with the requests any client may send.
Init == ServerAtRest /\ ClientAtRest

Next ==
    \/ \E u \in Users : ApiStartWorkout(u)
    \/ \E u \in Users, sid \in KnownSessionIds, k \in DOMAIN Workout.exercises :
          ApiLogExercise(u, sid, Workout.exercises[k])
    \/ \E u \in Users, sid \in KnownSessionIds : ApiCompleteWorkout(u, sid)
    \/ \E i \in DOMAIN reqs :
          \/ \E now \in ServerInstants : StartWorkout(i, now)
          \/ LogGetSession(i)
          \/ LogSetSession(i)
          \/ LogGetWeights(i)
          \/ LogSetWeights(i)
          \/ \E now \in ServerInstants : CompleteGetSession(i, now)
          \/ CompleteSetHistory(i)
          \/ CompleteDelSession(i)

Spec == Init /\ [][Next]_vars

\* The log-exercise handler with the bodies any client may send.
NextLog ==
    \/ \E u \in Users : ApiStartWorkout(u)
    \/ \E u \in Users, sid \in KnownSessionIds, k \in DOMAIN Workout.exercises,
          v \in ValuesSent :
          PostLogExercise(u, sid, Workout.exercises[k], v.weight, v.restTakenSeconds)
    \/ \E i \in DOMAIN reqs :
          \/ \E now \in ServerInstants : StartWorkout(i, now)
          \/ LogGetSession(i)
          \/ LogSetSession(i)
          \/ LogGetWeights(i)
          \/ LogSetWeights(i)

SpecLog == Init /\ [][NextLog]_vars

\* The start-workout and log-exercise handlers over a store whose operations
\* may fail.
NextFailing ==
    \/ \E u \in Users : ApiStartWorkout(u)
    \/ \E u \in Users, sid \in KnownSessionIds, k \in DOMAIN Workout.exercises :
          ApiLogExercise(u, sid, Workout.exercises[k])
    \/ \E i \in DOMAIN reqs :
          \/ \E now \in ServerInstants : StartWorkout(i, now)
          \/ LogGetSession(i)
          \/ LogSetSession(i)
          \/ LogGetWeights(i)
          \/ LogSetWeights(i)
          \/ StoreFails(i)

SpecFailing == Init /\ [][NextFailing]_vars

\* The workout session routes with a second user, who sends requests that name
\* the sessions of the first.
NextShared ==
    \/ \E u \in Users : ApiStartWorkout(u)
    \/ \E u \in Accounts, sid \in KnownSessionIds, k \in DOMAIN Workout.exercises :
          ApiLogExercise(u, sid, Workout.exercises[k])
    \/ \E u \in Accounts, sid \in KnownSessionIds : ApiCompleteWorkout(u, sid)
    \/ \E i \in DOMAIN reqs :
          \/ \E now \in ServerInstants : StartWorkout(i, now)
          \/ LogGetSession(i)
          \/ LogSetSession(i)
          \/ LogGetWeights(i)
          \/ LogSetWeights(i)
          \/ \E now \in ServerInstants : CompleteGetSession(i, now)
          \/ CompleteSetHistory(i)
          \/ CompleteDelSession(i)

SpecShared == Init /\ [][NextShared]_vars

\* The ActiveWorkout component once mounted: the mount effect has called
\* startSession, whose request is on its way.
InitClient ==
    /\ ServerAtRest
    /\ screen = "active-workout"
    /\ PlanAtRest
    /\ workout \in Workouts
    /\ permission \in Permissions
    /\ ui = InitialUi
    /\ effectPending = FALSE
    /\ calls = <<[kind |-> "start", startedAt |-> 0]>>
    /\ summary = None
    /\ clientNow = 0
    /\ tickBase = None
    /\ rests = <<>>
    /\ notified = 0
    /\ edits = 0

NextClient ==
    \/ \E index \in DOMAIN Exercises : startExercise(index)
    \/ completeWorkout
    \/ backToExercises
    \/ startRest
    \/ finishSet
    \/ skipRest
    \/ \E k \in DOMAIN ui.setsData, text \in RepTexts : changeReps(k, text)
    \/ \E text \in WeightTexts : changeWeight(text)
    \/ cancelLogger
    \/ logExercise
    \/ Tick
    \/ RunEffects
    \/ ClockAdvances
    \/ \E k \in DOMAIN calls :
          \/ StartSessionResolves(k)
          \/ \E status \in FailureStatuses : StartSessionRejects(k, status)
          \/ LogExerciseResolves(k)
          \/ \E status \in FailureStatuses : LogExerciseRejects(k, status)
          \/ \E replied \in RepliedRest : CompleteWorkoutResolves(k, replied)
          \/ \E status \in FailureStatuses : CompleteWorkoutRejects(k, status)

SpecClient == InitClient /\ [][NextClient]_vars

\* The same, with the browser's timers firing, React running the effects of a
\* render and time passing.
SpecClientLive ==
    SpecClient /\ WF_vars(Tick) /\ WF_vars(RunEffects) /\ WF_vars(ClockAdvances)

\* The plan setup, shown to a user without a plan, and the per-day editor.
InitPlan ==
    /\ ServerAtRest
    /\ screen = "workout-setup"
    /\ PlanAtRest
    /\ workout = Workout
    /\ permission = "granted"
    /\ ui = InitialUi
    /\ effectPending = FALSE
    /\ calls = <<>>
    /\ summary = None
    /\ clientNow = 0
    /\ tickBase = None
    /\ rests = <<>>
    /\ notified = 0
    /\ edits = 0

NextPlan ==
    \/ \E k \in DOMAIN DAYS_OF_WEEK : toggleDay(DAYS_OF_WEEK[k])
    \/ addExercise
    \/ \E e \in 1..MaxPlanExercises, text \in NameTexts : changeName(e, text)
    \/ \E e \in 1..MaxPlanExercises, field \in NumberFields, text \in NumberTexts :
          changeNumber(e, field, text)
    \/ \E e \in 1..MaxPlanExercises : removeExercise(e)
    \/ handleSubmit
    \/ \E k \in DOMAIN DAYS_OF_WEEK : handleViewWorkout(k)
    \/ startWorkoutEdit
    \/ addEditableExercise
    \/ \E e \in 1..MaxPlanExercises : removeEditableExercise(e)
    \/ \E e \in 1..MaxPlanExercises, text \in NameTexts : changeEditableName(e, text)
    \/ \E e \in 1..MaxPlanExercises, field \in NumberFields, text \in NumberTexts :
          changeEditableNumber(e, field, text)
    \/ saveWorkoutEdits
    \/ handleBackClick

SpecPlan == InitPlan /\ [][NextPlan]_vars

\* The body-metrics handlers with the requests any client may send.
NextProfile ==
    \/ \E t \in Tabs, body \in Payloads : ApiSaveUserInfo(t, body)
    \/ \E t \in Tabs : ApiGetUserInfo(t)
    \/ \E t \in Tabs : ApiGetUserInfoHistory(t)
    \/ \E t \in Tabs, entryId \in DOMAIN userInfoHistory \cup {NoSuchEntryId},
          body \in Payloads : ApiUpdateUserInfoHistory(t, entryId, body)
    \/ InfoClockAdvances
    \/ \E t \in Tabs :
          \/ PostUserInfo(t)
          \/ PostSetHistory(t)
          \/ PostSetLatest(t)
          \/ GetUserInfo(t)
          \/ GetUserInfoSetLatest(t)
          \/ GetUserInfoHistory(t)
          \/ PutUserInfoHistory(t)
          \/ PutSetHistory(t)
          \/ PutSetLatest(t)
          \/ EnsureGetByPrefix(t)
          \/ EnsureGetLatest(t)
          \/ EnsureSetLegacy(t)

SpecProfile == Init /\ [][NextProfile]_vars

\* GET /streak over the histories of a few days: any set of completion instants,
\* two to a day.
StreakInstants == {k * (DayMs \div 2) : k \in 0..MaxStreakHalfDays}

InitStreak ==
    /\ \E completions \in SUBSET StreakInstants :
          history = [key \in {HistoryKey("u1", Workout.day, t) : t \in completions} |->
                        [userId |-> key[1], workoutDay |-> Workout.day,
                         completedAt |-> key[4]]]
    /\ sessions = <<>>
    /\ weights = <<>>
    /\ reqs = <<>>
    /\ sent = 0
    /\ lastReply = None
    /\ logged = <<>>
    /\ disturbed = {}
    /\ failed = {}
    /\ completedIds = {}
    /\ ProfileAtRest
    /\ ClientAtRest

NextStreak == \E user \in Users, now \in StreakInstants : GetStreak(user, now)

SpecStreak == InitStreak /\ [][NextStreak]_vars


\* ------------------------------------------------- properties of the server

\* The complete-workout requests being handled.
Completing == {i \in DOMAIN reqs : reqs[i].kind = "complete"}

\* C1: the completedExercises list of a stored session is never longer than the
\* session's exercise list.
C1_CompletedWithinPlan ==
    \A sid \in DOMAIN sessions :
        Len(sessions[sid].completedExercises) <= Len(sessions[sid].exercises)

\* Every exercise of the plan appears in exactly one of the answered logs.
LoggedEachOnce(exercises, bodies) ==
    /\ Len(bodies) = Len(exercises)
    /\ \A k \in DOMAIN exercises :
          \E j \in DOMAIN bodies : bodies[j].exerciseName = exercises[k].name

RECURSIVE SumSubmitted(_)
SumSubmitted(bodies) ==
    IF bodies = <<>> THEN 0
    ELSE Head(bodies).restTakenSeconds[2] + SumSubmitted(Tail(bodies))

\* The record holds the logged exercises, in the order logged, and their rest.
RecordHolds(record, bodies) ==
    /\ Len(record.completedExercises) = Len(record.exercises)
    /\ Len(record.completedExercises) = Len(bodies)
    /\ \A k \in DOMAIN bodies :
          /\ record.completedExercises[k].exerciseName = bodies[k].exerciseName
          /\ record.completedExercises[k].setsData = bodies[k].setsData
    /\ record.totalRestSeconds = SumSubmitted(bodies)

\* The complete-workout request r was sent after every exercise of the plan had
\* been logged once and answered, with no request on the session failing.
LoggedThenCompleted(r) ==
    /\ r.seen.idle
    /\ r.body.sessionId \notin failed
    /\ LoggedEachOnce(Workout.exercises, r.seen.logged)

\* C3 as stated: whenever each of the N exercises was logged once, every request
\* succeeding, and the workout is then completed, the history record written
\* holds the N logged exercises in order and the sum of the submitted rests.
C3_AsStated ==
    [][\A i \in Completing :
          (CompleteSetHistory(i) /\ LoggedThenCompleted(reqs[i]))
              => RecordHolds(history'[reqs[i].local.key], reqs[i].seen.logged)]_vars

\* C3, amended: the same, for a session no two requests on which were ever in
\* flight together.
C3_LoggedInTurnThenCompleted ==
    [][\A i \in Completing :
          (/\ CompleteSetHistory(i)
           /\ LoggedThenCompleted(reqs[i])
           /\ reqs[i].body.sessionId \notin disturbed)
              => RecordHolds(history'[reqs[i].local.key], reqs[i].seen.logged)]_vars

\* Both exercises logged in turn, press before squat, and the record written.
C3_Witness ==
    \E i \in Completing :
        /\ reqs[i].pc = "delSession"
        /\ LoggedThenCompleted(reqs[i])
        /\ reqs[i].body.sessionId \notin disturbed
        /\ reqs[i].seen.logged[1].exerciseName = "press"
        /\ reqs[i].local.key \in DOMAIN history
        /\ history[reqs[i].local.key] = reqs[i].local.record
        /\ history[reqs[i].local.key].totalRestSeconds = 3

\* n is ms/1000 rounded to the nearest integer, a half rounded up, and not
\* less than 0.
IsRoundedClamped(n, ms) ==
    \/ n = 0 /\ 2 * ms < MsPerSecond
    \/ n > 0 /\ 2 * MsPerSecond * n - MsPerSecond <= 2 * ms
             /\ 2 * ms < 2 * MsPerSecond * n + MsPerSecond

\* C7: complete-workout computes totalWorkoutSeconds as the rounded seconds from
\* the session's startedAt to the completion instant, not below 0, stores it in
\* the history record and returns it with the record's completedAt and
\* totalRestSeconds.
C7_TotalsStoredAndReturned ==
    [][\A i \in Completing :
          /\ \A now \in ServerInstants :
                (CompleteGetSession(i, now) /\ reqs[i].body.sessionId \in DOMAIN sessions)
                    => LET record == reqs'[i].local.record
                       IN /\ record.completedAt = now
                          /\ record.startedAt = sessions[reqs[i].body.sessionId].startedAt
                          /\ IsRoundedClamped(record.totalWorkoutSeconds,
                                              now - record.startedAt)
          /\ CompleteSetHistory(i)
                => /\ history'[reqs[i].local.key] = reqs[i].local.record
                   /\ reqs'[i].local = reqs[i].local
          /\ CompleteDelSession(i)
                => LET record == reqs[i].local.record
                       reply == Get(lastReply').reply
                   IN /\ Get(lastReply').status = 200
                      /\ reply.totalWorkoutSeconds = record.totalWorkoutSeconds
                      /\ reply.completedAt = record.completedAt
                      /\ reply.totalRestSeconds = record.totalRestSeconds]_vars

\* A workout of half a second is completed: 1 second is stored and returned.
C7_Witness ==
    /\ IsSome(lastReply)
    /\ Get(lastReply).kind = "complete"
    /\ Get(lastReply).status = 200
    /\ Get(lastReply).reply.totalWorkoutSeconds = 1
    /\ \E key \in DOMAIN history :
          /\ history[key].completedAt = Get(lastReply).reply.completedAt
          /\ history[key].completedAt - history[key].startedAt = HalfSecond
          /\ history[key].totalWorkoutSeconds = 1

\* C9: every history record stays as written, and complete-workout writes its
\* record under a key no record uses yet.
C9_HistoryAppendOnly ==
    [][/\ \A key \in DOMAIN history :
             key \in DOMAIN history' /\ history'[key] = history[key]
       /\ \A i \in Completing :
             CompleteSetHistory(i) => reqs[i].local.key \notin DOMAIN history]_vars

\* C10: a session that was completed is absent from the store from then on.
C10_CompletedStaysAbsent ==
    \A sid \in completedIds : sid \notin DOMAIN sessions

\* C11: a session gives one history record at most: a complete-workout writes
\* its record, and is answered 200, only if no other complete-workout on the
\* session has written one since the session was started.
C11_OneRecordPerSession ==
    [][\A i \in Completing :
          LET sid == reqs[i].body.sessionId
          IN /\ CompleteSetHistory(i)
                   => /\ sid \notin completedIds
                      /\ \A j \in Completing \ {i} :
                            reqs[j].body.sessionId = sid => reqs[j].pc # "delSession"
             /\ CompleteDelSession(i) => sid \notin completedIds]_vars

\* The log-exercise requests being handled.
Logging == {i \in DOMAIN reqs : reqs[i].kind = "log"}

\* C12: a log-exercise appends its entry to the list it read and writes the
\* whole session back: whatever another request wrote to the session in
\* between is replaced, nothing is merged.
C12_LastWriteWins ==
    [][\A i \in Logging :
          LET sid == reqs[i].body.sessionId
          IN /\ (LogGetSession(i) /\ sid \in DOMAIN sessions)
                   => LET list == reqs'[i].local.completedExercises
                      IN /\ SubSeq(list, 1, Len(list) - 1) = sessions[sid].completedExercises
                         /\ list[Len(list)].exerciseName = reqs[i].body.exerciseName
                         /\ list[Len(list)].setsData = reqs[i].body.setsData
             /\ LogSetSession(i)
                   => /\ sessions'[sid] = reqs[i].local
                      /\ \A other \in DOMAIN sessions \ {sid} :
                            other \in DOMAIN sessions' /\ sessions'[other] = sessions[other]]_vars

\* A session was started and two log-exercise requests on it, in flight
\* together, were both answered 200: the session holds the one entry of the
\* request that wrote last, here the press.
C12_Witness ==
    /\ sent = 3
    /\ reqs = <<>>
    /\ \E sid \in DOMAIN sessions :
          /\ sid \in disturbed
          /\ Len(logged[sid]) = 2
          /\ logged[sid][1].exerciseName # logged[sid][2].exerciseName
          /\ Len(sessions[sid].completedExercises) = 1
          /\ sessions[sid].completedExercises[1].exerciseName = "press"

\* C15: every entry log-exercise stores has a weight that is a number not
\* below 0 and a restTakenSeconds that is a number not below 0.
C15_StoredLogsAreNonNegative ==
    \A sid \in DOMAIN sessions :
        \A k \in DOMAIN sessions[sid].completedExercises :
            LET entry == sessions[sid].completedExercises[k]
            IN /\ entry.weight[1] = "num"
               /\ entry.weight[2] >= 0
               /\ entry.restTakenSeconds >= 0

\* C20: a start-workout returns a session id no start-workout returned before,
\* and writes no record over a session that exists.
C20_SessionIdsAreUnique ==
    [][\A i \in DOMAIN reqs, now \in ServerInstants :
          StartWorkout(i, now)
              => /\ SessionIdOf(reqs[i].user, now) \notin KnownSessionIds
                 /\ SessionIdOf(reqs[i].user, now) \notin DOMAIN sessions]_vars

\* -------------------------------------------------- properties of the streak

\* The number of days, counted back from day `today`, up to the first day
\* without a completion.
RunEndingAt(days, today) ==
    CHOOSE n \in 0..(Cardinality(days)) :
        /\ \A k \in 0..(n - 1) : (today - k) \in days
        /\ (today - n) \notin days

\* C8: GET /streak returns the length of the run of consecutive calendar days
\* ending today on each of which the user has at least one history record.
C8_StreakIsRunEndingToday ==
    [][\A user \in Users, now \in StreakInstants :
          GetStreak(user, now)
              => Get(lastReply').reply.streak =
                     RunEndingAt({r.completedAt \div DayMs : r \in HistoryOf(user)},
                                 now \div DayMs)]_vars

\* Three days in a row ending today, two completions on one of them, after a
\* day without any: the streak returned is 3.
C8_Witness ==
    /\ IsSome(lastReply)
    /\ Get(lastReply).kind = "streak"
    /\ Get(lastReply).reply.streak = 3
    /\ Cardinality(DOMAIN history) = 4

\* ----------------------------------------------- properties of the component

\* C2: every log-exercise call carries a setsData whose length is the sets of
\* the exercise it logs.
C2_SetsDataSizedToExercise ==
    \A k \in LogCalls :
        Len(calls[k].setsData) = Exercises[calls[k].currentExerciseIndex].sets

\* C4: no rest period is accrued more than once.
C4_EachRestAccruedOnce ==
    \A n \in DOMAIN rests : rests[n].accruals <= 1

\* The seconds of the rest periods that have ended, each floored.
RECURSIVE FlooredSeconds(_)
FlooredSeconds(rs) ==
    IF rs = <<>> THEN 0
    ELSE FlooredSeconds(Tail(rs))
         + (IF IsSome(Head(rs).endedAt)
            THEN (Get(Head(rs).endedAt) - Head(rs).startedAt) \div MsPerSecond
            ELSE 0)

\* C5: totalRestSeconds never decreases, is never negative, and is the sum of
\* the floored elapsed seconds of the rest periods that have ended.
C5_RestTotalIsFlooredSum ==
    [][/\ ui'.totalRestSeconds >= ui.totalRestSeconds
       /\ ui'.totalRestSeconds >= 0
       /\ ui'.totalRestSeconds = FlooredSeconds(rests')]_vars

\* C6: the seconds accrued for a rest period that has ended are the seconds of
\* wall-clock time from its start to its end, whatever the configured restTime
\* and the ticks delivered.
C6_AccruedIsWallClock ==
    \A n \in DOMAIN rests :
        IsSome(rests[n].endedAt)
            => IsRoundedClamped(rests[n].seconds,
                                Get(rests[n].endedAt) - rests[n].startedAt)

\* C13: an exercise is marked completed exactly when a log-exercise call for it
\* succeeds, a failed call leaves the completed set, the completed logs and the
\* focus as they were, and an exercise once marked stays marked.
C13_MarkedOnSuccessAndStays ==
    [][/\ ui.completedExercises \subseteq ui'.completedExercises
       /\ \A k \in LogCalls :
             /\ LogExerciseResolves(k)
                   => ui'.completedExercises =
                          ui.completedExercises \cup {calls[k].currentExerciseIndex}
             /\ (\E status \in FailureStatuses : LogExerciseRejects(k, status))
                   => /\ ui'.completedExercises = ui.completedExercises
                      /\ ui'.completedExerciseLogs = ui.completedExerciseLogs
                      /\ ui'.currentExerciseIndex = ui.currentExerciseIndex
       /\ ui'.completedExercises # ui.completedExercises
             => \E k \in LogCalls : LogExerciseResolves(k)]_vars

\* C14: when Complete Workout is clicked while a rest period is open, the
\* seconds elapsed since the rest was started are added to the rest total and
\* the rest is closed.
C14_OpenRestAccruedOnComplete ==
    [][(completeWorkout /\ ui.isResting /\ IsSome(ui.restStartedAt))
          => /\ ui'.totalRestSeconds =
                    ui.totalRestSeconds + ElapsedSeconds(Get(ui.restStartedAt), clientNow)
             /\ ~ui'.isResting
             /\ ui'.restStartedAt = None]_vars

\* C16: when a call of the active workout (start-workout, log-exercise or
\* complete-workout) is answered 401, the App goes to the auth screen.
C16_UnauthorizedSignsOut ==
    [][\A k \in DOMAIN calls :
          (\/ StartSessionRejects(k, 401)
           \/ LogExerciseRejects(k, 401)
           \/ CompleteWorkoutRejects(k, 401))
              => screen' = "auth"]_vars

\* The start-workout calls awaiting their response.
StartCalls == {k \in DOMAIN calls : calls[k].kind = "start"}

StartFailedMessage == "Failed to start workout session"

CompleteCalls == {k \in DOMAIN calls : calls[k].kind = "complete"}

\* C18: a complete-workout call is made only in a state in which the session id
\* is set and every exercise of the day is in the completed set.
C18_CompletedOnlyWhenAllMarked ==
    [][(\/ completeWorkout
        \/ Cardinality({k \in DOMAIN calls' : calls'[k].kind = "complete"})
               > Cardinality(CompleteCalls))
          => /\ IsSome(ui.sessionId)
             /\ DOMAIN Exercises \subseteq ui.completedExercises]_vars

\* The complete-workout call of a day of two exercises is on its way.
C18_Witness ==
    /\ CompleteCalls # {}
    /\ Len(Exercises) = 2
    /\ ui.completedExercises = {1, 2}
    /\ Len(ui.completedExerciseLogs) = 2

\* ------------------------------------------------ properties of the plan

IsInt(v) == v[1] = "num"

\* sets, minReps <= maxReps and restTime as the plan's data model has them.
IsValidExercise(ex) ==
    /\ IsInt(ex.sets) /\ ex.sets[2] > 0
    /\ IsInt(ex.minReps) /\ IsInt(ex.maxReps) /\ ex.minReps[2] <= ex.maxReps[2]
    /\ IsInt(ex.restTime) /\ ex.restTime[2] > 0

\* C19: every plan saved, by the setup or by the per-day editor, has unique day
\* names and only exercises with integer sets > 0, integer minReps <= maxReps
\* and integer restTime > 0.
C19_SavedPlansAreValid ==
    IsSome(savedPlan)
        => LET plan == Get(savedPlan)
           IN /\ \A d, e \in DOMAIN plan : plan[d].day = plan[e].day => d = e
              /\ \A d \in DOMAIN plan :
                    \A e \in DOMAIN plan[d].exercises :
                        IsValidExercise(plan[d].exercises[e])

\* ------------------------------------------ properties of the body metrics

\* The request of tab t, of that kind, takes this step.
InfoActs(t, kind) ==
    /\ IsSome(infoReqs[t])
    /\ Get(infoReqs[t]).kind = kind
    /\ infoReqs'[t] # infoReqs[t]

\* A step of PUT /user-info-history/:id keeps the ids of the history, keeps the
\* entryId and recordedAt of the entry it fixes and leaves the others alone.
FixKeepsRows ==
    \A t \in Tabs :
       InfoActs(t, "put") =>
          /\ DOMAIN userInfoHistory' = DOMAIN userInfoHistory
          /\ \A id \in DOMAIN userInfoHistory :
                IF id = Get(infoReqs[t]).entryId
                THEN /\ userInfoHistory'[id].entryId = userInfoHistory[id].entryId
                     /\ userInfoHistory'[id].recordedAt = userInfoHistory[id].recordedAt
                ELSE userInfoHistory'[id] = userInfoHistory[id]

\* A step that adds a row to the history is a step of POST /user-info.
RowsAddedByPostOnly ==
    DOMAIN userInfoHistory' # DOMAIN userInfoHistory =>
       \E t \in Tabs : InfoActs(t, "post")

\* C21: fixing a history entry creates no new history row: the ids of the
\* history are the same after it, the fixed entry keeps its entryId and
\* recordedAt, every other entry is unchanged; and a row is added only by
\* POST /user-info.
C21_FixCreatesNoRow == [][FixKeepsRows /\ RowsAddedByPostOnly]_vars

\* Not finite, or not positive.
IsBadMeasure(j) == ~IsFinite(NumberOf(j)) \/ NumberOf(j)[2] <= 0

\* A body with a weight, height or age that is not finite or not positive, or
\* with a body-fat percentage outside 0..100.
IsRefusedPayload(body) ==
    \/ IsBadMeasure(body.weight)
    \/ IsBadMeasure(body.height)
    \/ IsBadMeasure(body.age)
    \/ /\ body.bodyFat[1] = "num"
       /\ (body.bodyFat[2] < 0 \/ body.bodyFat[2] > 100 * Tenths)

\* The request of tab t is a POST /user-info or a PUT /user-info-history/:id
\* with such a body, and takes this step.
RefusedActs(t) ==
    /\ InfoActs(t, "post") \/ InfoActs(t, "put")
    /\ IsRefusedPayload(Get(infoReqs[t]).body)

InfoQuiet == \A t \in Tabs : infoReqs[t] = None

\* C30: after any sequence of POST /user-info and PUT /user-info-history/:id
\* requests, overlapping ones included, the cached latest profile is the
\* weight, height, age, bodyFat and updatedAt of the history entry whose
\* recordedAt is greatest (of one of them, should several share it).
C30_LatestIsNewestEntry ==
    (InfoQuiet /\ userInfoHistory # <<>>) =>
       \E id \in DOMAIN userInfoHistory :
          /\ \A other \in DOMAIN userInfoHistory :
                userInfoHistory[other].recordedAt <= userInfoHistory[id].recordedAt
          /\ userInfoLatest = Some(latestProfileFromEntry(userInfoHistory[id]))

\* C23: the seconds of a rest period are credited to the exercise that was
\* focused when the rest was started: no rest period is credited to another
\* exercise, and none has ended without being credited.
C23_RestCreditedToItsExercise ==
    \A n \in DOMAIN rests :
       /\ rests[n].creditedTo \subseteq {rests[n].exercise}
       /\ IsSome(rests[n].endedAt) => rests[n].accruals >= 1

\* The sum of a per-exercise accumulator over the indices it holds.
RECURSIVE SumOver(_, _)
SumOver(record, indices) ==
    IF indices = {} THEN 0
    ELSE LET i == CHOOSE x \in indices : TRUE
         IN record[i] + SumOver(record, indices \ {i})

CountdownInRange ==
    (ui.isResting /\ rests # <<>>) =>
       /\ 0 <= ui.restTimer
       /\ ui.restTimer <= Exercises[rests[Len(rests)].exercise].restTime

\* A rest that is running has ended later on, or the component is gone.
RestEnds == (Mounted /\ ui.isResting) ~> (~Mounted \/ ~ui.isResting)

\* C25: every started rest period eventually ends: with the ticks delivered the
\* countdown, which stays within 0..restTime, reaches zero and isResting turns
\* false, whether or not the user skips and whether or not an exercise is
\* focused.
C25_EveryRestEnds == []CountdownInRange /\ RestEnds

\* No rest period was notified of twice, and none whose countdown has not come
\* to zero on its own (one ended by 'Skip Rest' or by completeWorkout before
\* that) was notified of.
NotifiedOfRunOutOnly ==
    \A n \in DOMAIN rests :
       /\ rests[n].notifications <= 1
       /\ ~rests[n].ranOut => rests[n].notifications = 0

C27_RestingIffStartRecorded == Mounted => (ui.isResting <=> IsSome(ui.restStartedAt))

\* C28: a session is changed or deleted only by a request of the user who
\* started it, and no history record is written from it under another user's
\* id.
C28_OnlyOwnerChangesSession ==
    [][/\ \A sid \in DOMAIN sessions :
             (sid \notin DOMAIN sessions' \/ sessions'[sid] # sessions[sid]) =>
                \E i \in DOMAIN reqs : reqs[i].user = sessions[sid].userId
       /\ \A key \in DOMAIN history' \ DOMAIN history :
             key[1] = history'[key].userId]_vars

\* The exercises a session holds, and those its answered log-exercise requests
\* have logged, by name and in order.
NamesHeld(sid) ==
    [k \in DOMAIN sessions[sid].completedExercises |->
        sessions[sid].completedExercises[k].exerciseName]

NamesLogged(sid) == [k \in DOMAIN logged[sid] |-> logged[sid][k].exerciseName]

\* C29: a log-exercise request answered with an error has not changed the
\* session: with the requests of a session sent one after the other, the
\* session holds the exercises of the requests answered 200 and no other,
\* whatever step of a handler the store has failed at.
C29_ErroredLogLeavesSession ==
    \A sid \in DOMAIN sessions :
       (/\ sid \notin disturbed
        /\ \A i \in DOMAIN reqs : ~OnSession(reqs[i], sid)) =>
          NamesHeld(sid) = NamesLogged(sid)

====
